---- MODULE Spec2Model ----
(***************************************************************************)
(* A model of the Fan Impact Engine (GR74/fie, backend/src): the three     *)
(* base models (win probability, crowd noise, concessions and queueing)    *)
(* and the orchestrators built on them (sensitivity surface, Monte Carlo,  *)
(* grid optimizer, calibration).                                           *)
(*                                                                         *)
(* Numbers.  Python floats are modelled as fixed-point integers counted in *)
(* units of 1/SCALE (0.001): 0.85 is 850, a probability p is 1000*p, a     *)
(* decibel value d is 1000*d.  Money is counted in cents, people and       *)
(* stands in units.  Products and quotients are floored to the unit        *)
(* (MulDiv), so a value of the model is within a few units of the float    *)
(* the code computes; comparisons against thresholds that decide a         *)
(* branch of the code are made on exact integers wherever the code's       *)
(* operands are exact.  math.exp, math.log, math.tanh and ** are computed  *)
(* by their series on fixed-point numbers, and math.exp raises             *)
(* OverflowError above ln(DBL_MAX), as CPython's does.                     *)
(*                                                                         *)
(* A call that raises returns the record [raised |-> <exception name>].    *)
(***************************************************************************)
EXTENDS Integers, Sequences, FiniteSets, TLC

VARIABLES
    pc,      \* position of the caller: "call", "loop", "done"
    args,    \* the arguments of the call in progress
    loc,     \* the locals of an orchestrator's loop
    ret      \* the value returned (or the exception raised) by the call

vars == <<pc, args, loc, ret>>

(***************************************************************************)
(* Fixed-point arithmetic                                                  *)
(***************************************************************************)
SCALE == 1000

\* each argument is evaluated once and bound to a name, as a call does
Abs(x) == CHOOSE v \in { IF a < 0 THEN -a ELSE a : a \in {x} } : TRUE
Max(x, y) == CHOOSE v \in { IF a >= b THEN a ELSE b : a \in {x}, b \in {y} } : TRUE
Min(x, y) == CHOOSE v \in { IF a <= b THEN a ELSE b : a \in {x}, b \in {y} } : TRUE

\* floor(a * b / c) for c > 0, without forming a * b
MulDiv(x, y, z) ==
    CHOOSE v \in { (a \div c) * b + ((a % c) * b) \div c :
                   a \in {x}, b \in {y}, c \in {z} } : TRUE

\* x * y and x / y of two fixed-point numbers
Mul(x, y) ==
    CHOOSE v \in { IF Abs(a) >= Abs(b) THEN MulDiv(a, b, SCALE) ELSE MulDiv(b, a, SCALE) :
                   a \in {x}, b \in {y} } : TRUE
Div(x, y) == MulDiv(x, SCALE, y)

\* round(): x is a fixed-point number, the result an integer (half away from
\* zero is not needed: every rounded quantity of the model is >= 0)
Round(x) == (x + SCALE \div 2) \div SCALE

_clamp(x, lo, hi) == Max(lo, Min(hi, x))

(***************************************************************************)
(* math.exp, math.log, math.tanh, ** on fixed-point numbers                *)
(***************************************************************************)
E_FIXED == 2718
LN2_FIXED == 693
\* math.exp(x) raises OverflowError for x > ln(DBL_MAX) = 709.782...
EXP_MAX_ARG == 709782

RECURSIVE ExpTaylor(_, _, _)
ExpTaylor(r, n, term) ==
    IF term = 0 \/ n > 12 THEN 0
    ELSE term + ExpTaylor(r, n + 1, (term * r) \div (SCALE * n))

RECURSIVE ExpPos(_)
ExpPos(x) ==
    IF x < SCALE THEN ExpTaylor(x, 1, SCALE)
    ELSE MulDiv(ExpPos(x - SCALE), E_FIXED, SCALE)

\* below e^-14 the result is under one unit (math.exp underflows to 0.0 silently)
MathExp(x) ==
    CHOOSE v \in { IF a >= 0 THEN ExpPos(a)
                   ELSE IF a < -14 * SCALE THEN 0
                   ELSE (SCALE * SCALE) \div ExpPos(-a) : a \in {x} } : TRUE
MathExpRaises(x) == x > EXP_MAX_ARG

\* ln on [1, 2): 2 * atanh((x - 1) / (x + 1))
LnSum(z, z2) ==
    2 * (z + Mul(z, z2) \div 3 + Mul(Mul(z, z2), z2) \div 5
           + Mul(Mul(Mul(z, z2), z2), z2) \div 7)
LnSeries(x) ==
    CHOOSE v \in { LnSum(z, Mul(z, z)) : z \in {Div(x - SCALE, x + SCALE)} } : TRUE

RECURSIVE MathLog(_)
MathLog(x) ==
    IF x < SCALE THEN MathLog(2 * x) - LN2_FIXED
    ELSE IF x >= 2 * SCALE THEN MathLog(x \div 2) + LN2_FIXED
    ELSE LnSeries(x)

MathTanh(x) ==
    CHOOSE v \in { Div(e2 - SCALE, e2 + SCALE) : e2 \in {MathExp(2 * x)} } : TRUE

\* x ** y for 0 <= x: 0 ** y = 0 for y > 0
Pow(x, y) ==
    CHOOSE v \in { IF a <= 0 THEN 0 ELSE MathExp(Mul(y, MathLog(a))) : a \in {x} } : TRUE

(***************************************************************************)
(* mock_model.py: helpers                                                  *)
(***************************************************************************)
Raise(e) == [raised |-> e]
Raised(r) == r.raised # "none"

_sigmoid(x) == (SCALE * SCALE) \div (SCALE + MathExp(-x))
_sigmoid_raises(x) == MathExpRaises(-x)

\* int(kickoff_time_local.split(":")[0]); -1 stands for the ValueError of int()
HourPart(k) ==
    CASE k = "12:00" -> 12
      [] k = "15:30" -> 15
      [] k = "19:30" -> 19
      [] k = "18:00" -> 18
      [] OTHER -> -1

_is_night(k) == IF HourPart(k) = -1 THEN FALSE ELSE HourPart(k) >= 18

KnownPromotions == {"none", "student_push", "alumni_night", "family_bundle", "rivalry_hype"}

(***************************************************************************)
(* mock_model.py: predict_hfa                                              *)
(***************************************************************************)
_HFA_INTERCEPT == 280
_COEFF_FILL == 1200
_COEFF_FILL_SQ == 450
_COEFF_STUDENT == 1000
_COEFF_RIVALRY == 300
_COEFF_RANK == 900
_COEFF_RANK_COMPRESS == 850
_COEFF_WIND == -180
_COEFF_NIGHT == 120
_COEFF_ENERGY == 400
_ENERGY_EXPONENT == 700
_COEFF_FILL_ENERGY == 250
_COEFF_FILL_RIVALRY == 150
_COEFF_ENCLOSURE == 80
Z_90 == 1645

_PROMO_MAP(promo) ==
    CASE promo = "none" -> 0
      [] promo = "student_push" -> 180
      [] promo = "alumni_night" -> 100
      [] promo = "family_bundle" -> -60
      [] promo = "rivalry_hype" -> 220

_normal_ci_from_logit(logit, sd_logit) ==
    [lo |-> _sigmoid(logit - Mul(Z_90, sd_logit)),
     hi |-> _sigmoid(logit + Mul(Z_90, sd_logit))]

HfaFill(inputs) ==
    LET attendance == Max(inputs.attendance, 0)
        cap == Max(inputs.venue_capacity, 1)
        fill == Min(Div(attendance, cap), 1200)
    IN Max(0, Min(fill, SCALE))

HfaEnergy(inputs) == Max(0, Min(inputs.crowd_energy, 100)) * (SCALE \div 100)

HfaRankEdge(inputs) == Div(inputs.opponent_rank - inputs.home_team_rank, 25)

HfaTerms(inputs) ==
    LET rank_compressed == MathTanh(Mul(HfaRankEdge(inputs), _COEFF_RANK_COMPRESS))
        night == IF _is_night(inputs.kickoff_time_local) THEN SCALE ELSE 0
        rivalry == IF inputs.rivalry_flag THEN SCALE ELSE 0
        wind_penalty == IF inputs.is_indoor THEN 0
                        ELSE Mul(_COEFF_WIND, Max(0, ((inputs.weather_wind_mph - 10) * SCALE) \div 10))
        enclosure == IF inputs.is_indoor THEN SCALE ELSE 0
    IN CHOOSE terms \in {
       [attendance_fill |-> Mul(_COEFF_FILL, fill_centered),
        fill_squared |-> Mul(_COEFF_FILL_SQ, Mul(fill_centered, fill_centered))
                            * (IF fill_centered > 0 THEN 1 ELSE -1),
        student_ratio |-> Mul(_COEFF_STUDENT, inputs.student_ratio - 180),
        rivalry |-> Mul(_COEFF_RIVALRY, rivalry),
        rank_edge |-> Mul(_COEFF_RANK, rank_compressed),
        wind_penalty |-> wind_penalty,
        night_kick |-> Mul(_COEFF_NIGHT, night),
        promotion |-> _PROMO_MAP(inputs.promotion_type),
        crowd_energy |-> Mul(_COEFF_ENERGY, energy_effect),
        fill_x_energy |-> Mul(_COEFF_FILL_ENERGY, Mul(fill_centered, energy_effect)),
        fill_x_rivalry |-> Mul(_COEFF_FILL_RIVALRY, Mul(fill_centered, rivalry)),
        enclosure |-> Mul(_COEFF_ENCLOSURE, enclosure)] :
         fill_centered \in {HfaFill(inputs) - 850},
         energy_effect \in {Pow(HfaEnergy(inputs), _ENERGY_EXPONENT)} } : TRUE

HfaLogit(inputs) ==
    CHOOSE logit \in
      { _HFA_INTERCEPT + t.attendance_fill + t.fill_squared + t.student_ratio + t.rivalry
        + t.rank_edge + t.wind_penalty + t.night_kick + t.promotion + t.crowd_energy
        + t.fill_x_energy + t.fill_x_rivalry + t.enclosure : t \in {HfaTerms(inputs)} } : TRUE

HfaSdLogit(inputs) ==
    LET rivalry == IF inputs.rivalry_flag THEN SCALE ELSE 0
    IN 180
       + Mul(70, Abs(HfaRankEdge(inputs)))
       + (IF inputs.is_indoor THEN 0
          ELSE Mul(50, _clamp((inputs.weather_wind_mph * SCALE) \div 25, 0, SCALE)))
       + Mul(40, SCALE - HfaFill(inputs))
       + Mul(50, rivalry)
       + Mul(20, SCALE - HfaEnergy(inputs))

predict_hfa(inputs_arg) ==
    LET Call[inputs \in {inputs_arg}] == (
        IF inputs.promotion_type \notin KnownPromotions THEN Raise("KeyError")
        ELSE
        CHOOSE out \in
          { IF _sigmoid_raises(logit_full) \/ _sigmoid_raises(logit_full - Mul(Z_90, sd_logit))
            THEN Raise("OverflowError")
            ELSE [raised |-> "none",
                  predicted_win_probability |-> _sigmoid(logit_full),
                  predicted_win_probability_ci_low |->
                      _normal_ci_from_logit(logit_full, sd_logit).lo,
                  predicted_win_probability_ci_high |->
                      _normal_ci_from_logit(logit_full, sd_logit).hi,
                  sd_logit |-> sd_logit,
                  logit |-> logit_full] :
            logit_full \in {HfaLogit(inputs)}, sd_logit \in {HfaSdLogit(inputs)} } : TRUE
        )
    IN Call[inputs_arg]

(***************************************************************************)
(* Callers of predict_hfa: every valid HfaInputs of a bounded set          *)
(***************************************************************************)
NoLoc == [none |-> TRUE]
NoRet == [raised |-> "pending"]

HfaValidInputs ==
    [attendance : {0, 51390, 100000, 130000},
     venue_capacity : {102780},
     student_ratio : {0, 200, 1000},
     rivalry_flag : BOOLEAN,
     opponent_rank : {1, 25},
     home_team_rank : {1, 5, 25},
     weather_wind_mph : {0, 8, 30, 50000},
     kickoff_time_local : {"15:30", "19:30"},
     promotion_type : {"none", "family_bundle", "rivalry_hype"},
     crowd_energy : {0, 75, 100},
     is_indoor : BOOLEAN]

InitHfa == pc = "call" /\ args \in HfaValidInputs /\ loc = NoLoc /\ ret = NoRet

CallPredictHfa ==
    /\ pc = "call"
    /\ ret' = predict_hfa(args)
    /\ pc' = "done"
    /\ UNCHANGED <<args, loc>>

NextHfa == CallPredictHfa

SpecHfa == InitHfa /\ [][NextHfa]_vars

(***************************************************************************)
(* C1.  For every valid HfaInputs predict_hfa returns a win probability    *)
(* strictly between 0 and 1, bracketed by its confidence interval:         *)
(* 0 < p < 1 and ci_low <= p <= ci_high.                                   *)
(* The claim as stated; it fails where math.exp overflows (an outdoor      *)
(* game with a wind of 50000 mph, which HfaInputs and the request schema   *)
(* accept): predict_hfa raises OverflowError and returns nothing.          *)
(***************************************************************************)
C1_WinProbabilityInRange ==
    pc = "done" =>
        /\ ret.raised = "none"
        /\ 0 < ret.predicted_win_probability
        /\ ret.predicted_win_probability < SCALE
        /\ ret.predicted_win_probability_ci_low <= ret.predicted_win_probability
        /\ ret.predicted_win_probability <= ret.predicted_win_probability_ci_high

(***************************************************************************)
(* mock_model.py: predict_loudness_db                                      *)
(***************************************************************************)
_NOISE_BASE == 88000
_NOISE_FILL_COEFF == 15000
_NOISE_STUDENT_AMP == 3500
_NOISE_RIVALRY == 3000
_NOISE_NIGHT == 1500
_NOISE_ENCLOSURE == 4000
_NOISE_ENERGY_COEFF == 10000
_NOISE_ENERGY_EXPONENT == 600
_NOISE_COORDINATION == 2000
_NOISE_COLD_BONUS == 800
DB_MIN == 82000
DB_MAX == 125000

NoiseFill(a) == Max(0, Min(Div(a.attendance, Max(a.venue_capacity, 1)), SCALE))
NoiseEnergy(a) == Max(0, Min(a.crowd_energy, 100)) * (SCALE \div 100)

\* db before the clamp of line 358
NoiseRawDb(a) ==
    LET fill == NoiseFill(a)
        energy == NoiseEnergy(a)
        sr == Max(0, Min(a.student_ratio, 500))
        fill_db == IF fill > 0
                   THEN Mul(_NOISE_FILL_COEFF, Div(MathLog(SCALE + fill * 7), MathLog(8 * SCALE)))
                   ELSE 0
        student_db == Div(Mul(_NOISE_STUDENT_AMP, Max(0, sr - 120)), 180)
        coordination_db == IF energy > 700
                           THEN Mul(_NOISE_COORDINATION, Max(0, Div(energy - 700, 300)))
                           ELSE 0
        cold_db == IF ~a.is_indoor
                   THEN (_NOISE_COLD_BONUS * Max(0, 50 - a.weather_temp_f)) \div 30
                   ELSE 0
    IN _NOISE_BASE
       + fill_db
       + student_db
       + (IF a.rivalry_flag THEN _NOISE_RIVALRY ELSE 0)
       + (IF _is_night(a.kickoff_time_local) THEN _NOISE_NIGHT ELSE 0)
       + (IF a.is_indoor THEN _NOISE_ENCLOSURE ELSE 0)
       + Mul(Pow(energy, _NOISE_ENERGY_EXPONENT), _NOISE_ENERGY_COEFF)
       + coordination_db
       + cold_db

NoiseSdDb(a) ==
    1200
    + Mul(1500, SCALE - NoiseFill(a))
    + Mul(800, SCALE - NoiseEnergy(a))
    + (IF a.rivalry_flag THEN 600 ELSE 0)
    + (IF ~a.is_indoor /\ a.weather_temp_f < 40 THEN 400 ELSE 0)

NoiseDb_unclamped(a) == NoiseRawDb(a)
NoiseDb(a) == Max(DB_MIN, Min(DB_MAX, NoiseRawDb(a)))

predict_loudness_db(a_arg) ==
    LET Call[a \in {a_arg}] == (
        LET db == NoiseDb(a)
            sd_db == NoiseSdDb(a)
        IN [raised |-> "none",
            projected_decibels |-> db,
            projected_decibels_ci_low |-> Max(70000, db - Mul(Z_90, sd_db)),
            projected_decibels_ci_high |-> Min(135000, db + Mul(Z_90, sd_db)),
            sd_db |-> sd_db]
        )
    IN Call[a_arg]

(***************************************************************************)
(* Callers of predict_loudness_db: any input combination, extremes too     *)
(***************************************************************************)
NoiseInputs ==
    [attendance : {-5, 0, 50000, 1000000},
     venue_capacity : {0, 102780},
     rivalry_flag : BOOLEAN,
     kickoff_time_local : {"12:00", "19:30", "late"},
     crowd_energy : {-10, 0, 80, 500},
     student_ratio : {-100, 180, 5000},
     is_indoor : BOOLEAN,
     weather_temp_f : {-1000, 30, 65, 120}]

InitNoise == pc = "call" /\ args \in NoiseInputs /\ loc = NoLoc /\ ret = NoRet

CallPredictLoudness ==
    /\ pc = "call"
    /\ ret' = predict_loudness_db(args)
    /\ pc' = "done"
    /\ UNCHANGED <<args, loc>>

NextNoise == CallPredictLoudness

SpecNoise == InitNoise /\ [][NextNoise]_vars

(***************************************************************************)
(* C2.  predict_loudness_db returns projected_decibels in [82, 125] for    *)
(* every input combination, extreme values included.                       *)
(***************************************************************************)
C2_DecibelsInRange ==
    pc = "done" =>
        /\ ret.raised = "none"
        /\ DB_MIN <= ret.projected_decibels
        /\ ret.projected_decibels <= DB_MAX

\* an input whose unclamped level is above 125 dB was clamped to 125 dB
C2_Witness ==
    /\ pc = "done"
    /\ NoiseRawDb(args) > DB_MAX
    /\ ret.projected_decibels = DB_MAX

(***************************************************************************)
(* storage.py: the cached venue and menu configuration.  backend/data is   *)
(* not part of the sources: per-capita spends, margins and the service     *)
(* rate are those of simulate_concessions' docstring, the other figures    *)
(* are data of the model (a small venue, so that every queue regime is     *)
(* met with attendances of a few thousand).                                *)
(***************************************************************************)
load_venue ==
    [capacity |-> 3000,
     is_indoor |-> FALSE,
     concessions |-> [stands_total |-> 8,
                      service_rate_customers_per_staff_per_min |-> 550,
                      express_lane_service_boost_pct |-> 18,
                      default_stands_open_pct |-> 85,
                      default_staff_per_stand |-> 6],
     crowd |-> [default_crowd_energy |-> 78]]

load_concessions_menu ==
    [segments |-> [student |-> [per_cap_spend_usd |-> 750, gross_margin_pct |-> 59],
                   nonstudent |-> [per_cap_spend_usd |-> 1550, gross_margin_pct |-> 66]],
     adjustments |-> [cold_weather_spend_boost_pct |-> 15,
                      night_game_spend_boost_pct |-> 8,
                      student_push_spend_drop_pct |-> 5,
                      family_bundle_spend_drop_pct |-> 6,
                      alumni_night_spend_boost_pct |-> 7,
                      rivalry_hype_spend_boost_pct |-> 10],
     sport_multiplier |-> 1000]

(***************************************************************************)
(* mock_model.py: simulate_concessions and its inner mm_s_metrics          *)
(***************************************************************************)
\* round() of a fixed-point number >= 0 to an integer, ties to even
PyRound(x) ==
    LET q == x \div SCALE
        r == x % SCALE
    IN IF r * 2 > SCALE \/ (r * 2 = SCALE /\ q % 2 = 1) THEN q + 1 ELSE q

\* n / d of two fixed-point numbers, for a large d
Ratio(n, d) == IF d > 2000000 THEN Div(n \div SCALE, d \div SCALE) ELSE Div(n, d)

\* a^k / k!
RECURSIVE ErlangTerm(_, _)
ErlangTerm(a, k) == IF k = 0 THEN SCALE ELSE MulDiv(ErlangTerm(a, k - 1), a, SCALE * k)

\* the sum of a^k / k! over the k of log_terms[:-1], that is k = 0 .. s - 2
RECURSIVE ErlangSum(_, _)
ErlangSum(a, k) == IF k < 0 THEN 0 ELSE ErlangTerm(a, k) + ErlangSum(a, k - 1)

\* the guards of lines 533 and 535, on a = lam / mu (mu > 0)
QueueIdle_strict(lam) == lam < 0
QueueIdle(lam) == lam <= 0
QueueUnstable_strict(lam, s, mu) == lam > s * mu
QueueUnstable(lam, s, mu) == lam >= s * mu

QUEUE_RHO_SENTINEL == 1500
QUEUE_WQ_SENTINEL == 45000

mm_s_metrics(arrivals_per_min, stands_open, mu_per_stand) ==
    LET s == Max(1, stands_open)
        mu == Max(1, mu_per_stand)
        lam == Max(0, arrivals_per_min)
        a == Div(lam, mu)
    IN IF QueueIdle(lam)
       THEN [raised |-> "none", rho |-> 0, p_wait |-> 0, wq_min |-> 0, p_wait_gt_15 |-> 0]
       ELSE IF QueueUnstable(lam, s, mu)
       THEN [raised |-> "none", rho |-> QUEUE_RHO_SENTINEL, p_wait |-> SCALE,
             wq_min |-> QUEUE_WQ_SENTINEL, p_wait_gt_15 |-> SCALE]
       ELSE IF s = 1
       THEN Raise("ValueError")   \* max() of the empty list log_terms[:-1]
       ELSE IF s * mu = lam
       THEN Raise("ZeroDivisionError")   \* s / (s - a)
       ELSE IF s * mu < lam
       THEN Raise("ValueError")   \* math.log of a negative number
       ELSE
       LET sum == ErlangSum(a, s - 2)
           b == MulDiv(ErlangTerm(a, s) * s, SCALE, Max(1, s * SCALE - a))
           p_wait == Ratio(b, sum + b)
           spare == s * mu - lam
           wq == Div(p_wait, spare)
           p_gt_15 == Mul(p_wait, MathExp(-(spare * 15)))
       IN [raised |-> "none",
           rho |-> a \div s,
           p_wait |-> _clamp(p_wait, 0, SCALE),
           wq_min |-> _clamp(wq, 0, 60000),
           p_wait_gt_15 |-> _clamp(p_gt_15, 0, SCALE)]

ConcWindows(early_arrival_promo) ==
    << [window |-> "pre_kick", minutes |-> 60,
        pct |-> 120 + (IF early_arrival_promo THEN 20 ELSE 0)],
       [window |-> "halftime", minutes |-> 20, pct |-> 220],
       [window |-> "q4", minutes |-> 15, pct |-> 60] >>

\* the composite spend multiplier (lines 472-499)
ConcMult(a, menu) ==
    LET adj == menu.adjustments
        cold == adj.cold_weather_spend_boost_pct * 10
        m0 == menu.sport_multiplier
        m1 == IF a.is_indoor THEN m0
              ELSE IF a.weather_temp_f <= 35 THEN Mul(m0, SCALE + Mul(cold, 1300))
              ELSE IF a.weather_temp_f <= 45 THEN Mul(m0, SCALE + cold)
              ELSE IF a.weather_temp_f <= 55 THEN Mul(m0, SCALE + Mul(cold, 400))
              ELSE IF a.weather_temp_f >= 90 THEN Mul(m0, 1050)
              ELSE m0
        m2 == IF _is_night(a.kickoff_time_local)
              THEN Mul(m1, SCALE + adj.night_game_spend_boost_pct * 10) ELSE m1
    IN CASE a.promotion_type = "student_push" ->
                Mul(m2, SCALE - adj.student_push_spend_drop_pct * 10)
         [] a.promotion_type = "family_bundle" ->
                Mul(m2, SCALE - adj.family_bundle_spend_drop_pct * 10)
         [] a.promotion_type = "alumni_night" ->
                Mul(m2, SCALE + adj.alumni_night_spend_boost_pct * 10)
         [] a.promotion_type = "rivalry_hype" ->
                Mul(m2, SCALE + adj.rivalry_hype_spend_boost_pct * 10)
         [] OTHER -> m2

\* the wait band of a utilization (lines 593-600)
WaitBand(util) ==
    IF util <= 750 THEN <<3, 8>>
    ELSE IF util <= 900 THEN <<8, 15>>
    ELSE IF util <= 1050 THEN <<15, 28>>
    ELSE <<28, 45>>

\* min(0.25, (avg_wait - 12) * 0.015) in units of 1/10000, 0 when avg_wait <= 12
LossPct_uncapped(wait) ==
    IF wait[1] + wait[2] > 24 THEN (wait[1] + wait[2] - 24) * 75 ELSE 0
LossPct(wait) ==
    IF wait[1] + wait[2] > 24 THEN Min(2500, (wait[1] + wait[2] - 24) * 75) ELSE 0

\* ceil(arrivals / stands_open / service_rate / (0.90 * (1 + boost))) in [1, 20]
TargetStaff_floor(arrivals, stands_open, service_rate, boost) ==
    LET per_staff == Mul(Mul(Max(stands_open, 1) * Max(service_rate, 1), 900), SCALE + boost)
    IN Max(1, Min(arrivals \div Max(per_staff, 1), 20))
TargetStaff(arrivals, stands_open, service_rate, boost) ==
    LET per_staff == Mul(Mul(Max(stands_open, 1) * Max(service_rate, 1), 900), SCALE + boost)
    IN Max(1, Min(-((-arrivals) \div Max(per_staff, 1)), 20))

\* attendance = max(0, int(attendance)) (line 457)
ConcAttendance_floor1(attendance) == Max(1, attendance)
ConcAttendance(attendance) == Max(0, attendance)

simulate_concessions(a0_arg) ==
    LET Call[a0 \in {a0_arg}] == (
        LET venue == a0.venue
            menu == load_concessions_menu
            attendance == ConcAttendance(a0.attendance)
            student_ratio == Max(0, Min(a0.student_ratio, SCALE))
            a == [a0 EXCEPT !.attendance = attendance, !.student_ratio = student_ratio]
            student_count == PyRound(attendance * student_ratio)
            nonstudent_count == Max(0, attendance - student_count)
            mult == ConcMult(a, menu)
            revenue_students ==
                MulDiv(student_count * menu.segments.student.per_cap_spend_usd, mult, SCALE)
            revenue_non ==
                MulDiv(nonstudent_count * menu.segments.nonstudent.per_cap_spend_usd, mult, SCALE)
            revenue_total == revenue_students + revenue_non
            conc == venue.concessions
            stands_total == conc.stands_total
            stands_open == Max(1, PyRound(stands_total * a.stands_open_pct * (SCALE \div 100)))
            staff_per_stand == Max(1, a.staff_per_stand)
            service_rate == conc.service_rate_customers_per_staff_per_min
            boost == IF a.express_lanes THEN conc.express_lane_service_boost_pct * 10 ELSE 0
            mu_per_stand == Mul(staff_per_stand * service_rate, SCALE + boost)
            capacity_per_min == stands_open * mu_per_stand
            windows == ConcWindows(a.early_arrival_promo)
            Arrivals(w) == (attendance * w.pct) \div w.minutes
            Util(w) == Div(Arrivals(w), Max(capacity_per_min, 1))
            Queue(w) == mm_s_metrics(Arrivals(w), stands_open, mu_per_stand)
            Loss(w) == MulDiv(MulDiv(revenue_total, w.pct, SCALE), LossPct(WaitBand(Util(w))), 10000)
            wait_windows ==
                [i \in 1..3 |->
                    LET w == windows[i]
                    IN [window |-> w.window,
                        arrivals_per_min |-> Arrivals(w),
                        capacity_per_min |-> capacity_per_min,
                        utilization |-> Util(w),
                        wait_minutes_band |-> WaitBand(Util(w)),
                        queue |-> Queue(w),
                        abandonment_loss_usd |-> Loss(w)]]
            total_abandonment_loss ==
                Loss(windows[1]) + Loss(windows[2]) + Loss(windows[3])
            effective_revenue == revenue_total - total_abandonment_loss
            worst_util == Max(Util(windows[1]), Max(Util(windows[2]), Util(windows[3])))
            worst_p == Max(Queue(windows[1]).p_wait_gt_15,
                           Max(Queue(windows[2]).p_wait_gt_15, Queue(windows[3]).p_wait_gt_15))
        IN IF \E i \in 1..3 : Raised(Queue(windows[i]))
           THEN Queue(windows[CHOOSE i \in 1..3 :
                                  /\ Raised(Queue(windows[i]))
                                  /\ \A k \in 1..(i - 1) : ~Raised(Queue(windows[k]))])
           ELSE [raised |-> "none",
                 revenue_total_usd |-> effective_revenue,
                 revenue_gross_usd |-> revenue_total,
                 revenue_abandonment_loss_usd |-> total_abandonment_loss,
                 revenue_students_usd |-> revenue_students,
                 revenue_nonstudents_usd |-> revenue_non,
                 per_cap_spend_usd |-> IF attendance > 0 THEN effective_revenue \div attendance ELSE 0,
                 ops |-> [stands_total |-> stands_total,
                          stands_open |-> stands_open,
                          staff_per_stand |-> staff_per_stand,
                          capacity_per_min |-> capacity_per_min,
                          wait_time_windows |-> wait_windows,
                          worst_utilization |-> worst_util,
                          worst_p_wait_gt_15 |-> worst_p,
                          recommended_staff_per_stand |->
                              TargetStaff(Arrivals(windows[2]), stands_open, service_rate, boost),
                          staffing_plan |->
                              [i \in 1..3 |->
                                  [window |-> windows[i].window,
                                   recommended_staff_per_stand |->
                                       TargetStaff(Arrivals(windows[i]), stands_open,
                                                   service_rate, boost)]]]]
        )
    IN Call[a0_arg]

(***************************************************************************)
(* Callers of simulate_concessions                                         *)
(***************************************************************************)
ConcInputs ==
    [attendance : {0, 40, 1000, 2000, 3000},
     student_ratio : {0, 200, 1000},
     kickoff_time_local : {"12:00", "19:30"},
     weather_temp_f : {30, 65},
     promotion_type : {"none", "student_push", "rivalry_hype"},
     stands_open_pct : {10, 60, 100},
     staff_per_stand : {1, 6, 20},
     express_lanes : BOOLEAN,
     early_arrival_promo : BOOLEAN,
     venue : {load_venue},
     is_indoor : {FALSE}]

InitConc == pc = "call" /\ args \in ConcInputs /\ loc = NoLoc /\ ret = NoRet

CallSimulateConcessions ==
    /\ pc = "call"
    /\ ret' = simulate_concessions(args)
    /\ pc' = "done"
    /\ UNCHANGED <<args, loc>>

NextConc == CallSimulateConcessions

SpecConc == InitConc /\ [][NextConc]_vars

(***************************************************************************)
(* Callers of the queue computation mm_s_metrics on one window             *)
(***************************************************************************)
QueueInputs ==
    [arrivals_per_min : {0, 500, 1100, 3000, 12000, 40000},
     stands_open : {1, 2, 5, 8},
     mu_per_stand : {550, 649, 3300, 12980}]

InitQueue == pc = "call" /\ args \in QueueInputs /\ loc = NoLoc /\ ret = NoRet

CallMmS ==
    /\ pc = "call"
    /\ ret' = mm_s_metrics(args.arrivals_per_min, args.stands_open, args.mu_per_stand)
    /\ pc' = "done"
    /\ UNCHANGED <<args, loc>>

NextQueue == CallMmS

SpecQueue == InitQueue /\ [][NextQueue]_vars

(***************************************************************************)
(* C6.  simulate_concessions with attendance = 0 returns                   *)
(* revenue_total_usd = 0 and per_cap_spend_usd = 0, whatever the other     *)
(* inputs are.                                                             *)
(***************************************************************************)
C6_ZeroAttendanceZeroRevenue ==
    (pc = "done" /\ args.attendance = 0) =>
        /\ ret.raised = "none"
        /\ ret.revenue_total_usd = 0
        /\ ret.per_cap_spend_usd = 0
        /\ ret.revenue_abandonment_loss_usd = 0

\* an empty house on a cold night with a promotion: every multiplier applies
C6_Witness ==
    /\ pc = "done"
    /\ args.attendance = 0
    /\ args.student_ratio = SCALE
    /\ args.promotion_type = "rivalry_hype"
    /\ ret.raised = "none"
    /\ ret.revenue_total_usd = 0

(***************************************************************************)
(* C7.  A queue window with zero arrivals reports utilization = 0,         *)
(* p_wait = 0, wq_min = 0 and p_wait_gt_15 = 0, for every number of open   *)
(* stands and every staffing level.  (A window has zero arrivals exactly   *)
(* when the attendance is 0.)                                              *)
(***************************************************************************)
ZeroWindow(w) ==
    /\ w.utilization = 0
    /\ w.queue = [raised |-> "none", rho |-> 0, p_wait |-> 0, wq_min |-> 0, p_wait_gt_15 |-> 0]

C7_ZeroArrivalsWindow ==
    pc = "done" =>
        /\ args.attendance = 0 =>
              /\ ret.raised = "none"
              /\ \A i \in 1..3 : ret.ops.wait_time_windows[i].arrivals_per_min = 0
        /\ ret.raised = "none" =>
              \A i \in 1..3 :
                  ret.ops.wait_time_windows[i].arrivals_per_min = 0
                      => ZeroWindow(ret.ops.wait_time_windows[i])

\* zero arrivals at a single open stand with one member of staff
C7_Witness ==
    /\ pc = "done"
    /\ ret.raised = "none"
    /\ ret.ops.stands_open = 1
    /\ ret.ops.staff_per_stand = 1
    /\ ret.ops.wait_time_windows[2].arrivals_per_min = 0
    /\ ZeroWindow(ret.ops.wait_time_windows[2])

(***************************************************************************)
(* C8.  When the offered load a = arrival_rate / service_rate_per_stand    *)
(* is >= the number of open stands s, mm_s_metrics returns the sentinel    *)
(* metrics: rho 1.5, wait probability 1.0, expected wait 45 minutes,       *)
(* P(wait > 15 min) 1.0, and does not raise.                               *)
(***************************************************************************)
QueueSentinel ==
    [raised |-> "none", rho |-> 1500, p_wait |-> 1000, wq_min |-> 45000, p_wait_gt_15 |-> 1000]

C8_UnstableQueueSentinel ==
    (/\ pc = "done"
     /\ args.arrivals_per_min > 0
     /\ args.arrivals_per_min >= Max(1, args.stands_open) * args.mu_per_stand)
        => ret = QueueSentinel

\* the boundary a = s, and a load far above it
C8_Witness ==
    /\ pc = "done"
    /\ args.arrivals_per_min = args.stands_open * args.mu_per_stand
    /\ ret = QueueSentinel

(***************************************************************************)
(* schemas.py: Game records (opponent_rank 0 stands for None)              *)
(***************************************************************************)
Games ==
    [game_id : {"g"},
     venue_capacity : {3000},
     baseline_attendance : {2000, 2900},
     baseline_student_ratio : {200},
     rivalry_flag : BOOLEAN,
     opponent_rank : {0, 3},
     home_team_rank : {5},
     baseline_weather_wind_mph : {8},
     baseline_weather_temp_f : {50},
     kickoff_time_local : {"15:30"},
     baseline_promotion_type : {"none"}]

\* game.opponent_rank or 25
RankOr25(rank) == IF rank = 0 THEN 25 ELSE rank

\* list(range(lo, hi, step)) for step > 0
PyRange(lo, hi, step) ==
    LET n == IF hi > lo THEN (hi - lo + step - 1) \div step ELSE 0
    IN [k \in 1..n |-> lo + (k - 1) * step]

\* x = lo; while x <= hi + 1e-9: append round(x, 3); x += step   (step > 0)
RatioSteps(lo, hi, step) ==
    LET n == IF hi >= lo THEN (hi - lo) \div step + 1 ELSE 0
    IN [k \in 1..n |-> lo + (k - 1) * step]

(***************************************************************************)
(* sensitivity.py: hfa_sensitivity_surface, one loop iteration per action  *)
(***************************************************************************)
SensHfaInputs(game, sr, att, en) ==
    [attendance |-> att,
     venue_capacity |-> game.venue_capacity,
     student_ratio |-> sr,
     rivalry_flag |-> game.rivalry_flag,
     opponent_rank |-> RankOr25(game.opponent_rank),
     home_team_rank |-> RankOr25(game.home_team_rank),
     weather_wind_mph |-> game.baseline_weather_wind_mph,
     kickoff_time_local |-> game.kickoff_time_local,
     promotion_type |-> game.baseline_promotion_type,
     crowd_energy |-> en,
     is_indoor |-> FALSE]

\* row: list[float] = [] at the head of the outer loop's body (line 35)
SensNewRow_kept(row) == row
SensNewRow(row) == << >>

\* crowd_energy 0 stands for None
SensRequests ==
    [game : Games,
     attendance_min : {2000, 2550},
     attendance_max : {3000},
     attendance_step : {500},
     student_ratio_min : {140, 250},
     student_ratio_max : {260},
     student_ratio_step : {60},
     crowd_energy : {0, 60}]

InitSens == pc = "call" /\ args \in SensRequests /\ loc = NoLoc /\ ret = NoRet

SensStart ==
    /\ pc = "call"
    /\ pc' = "loop"
    /\ loc' = [att_vals |-> PyRange(args.attendance_min, args.attendance_max + 1,
                                    args.attendance_step),
               sr_vals |-> RatioSteps(args.student_ratio_min, args.student_ratio_max,
                                      args.student_ratio_step),
               en |-> IF args.crowd_energy # 0 THEN args.crowd_energy ELSE 78,
               i |-> 1, j |-> 1, row |-> << >>, grid |-> << >>]
    /\ UNCHANGED <<args, ret>>

SensCell ==
    /\ pc = "loop"
    /\ loc.i <= Len(loc.sr_vals)
    /\ loc.j <= Len(loc.att_vals)
    /\ \E res \in {predict_hfa(SensHfaInputs(args.game, loc.sr_vals[loc.i],
                                               loc.att_vals[loc.j], loc.en))} :
          IF Raised(res)
          THEN pc' = "done" /\ ret' = res /\ loc' = loc
          ELSE /\ loc' = [loc EXCEPT !.row = Append(@, res.predicted_win_probability),
                                     !.j = @ + 1]
               /\ UNCHANGED <<pc, ret>>
    /\ UNCHANGED args

SensRowEnd ==
    /\ pc = "loop"
    /\ loc.i <= Len(loc.sr_vals)
    /\ loc.j > Len(loc.att_vals)
    /\ loc' = [loc EXCEPT !.grid = Append(@, loc.row),
                          !.row = SensNewRow(loc.row),
                          !.i = @ + 1,
                          !.j = 1]
    /\ UNCHANGED <<pc, args, ret>>

SensReturn ==
    /\ pc = "loop"
    /\ loc.i > Len(loc.sr_vals)
    /\ pc' = "done"
    /\ ret' = [raised |-> "none",
               attendance |-> loc.att_vals,
               student_ratio |-> loc.sr_vals,
               win_probability |-> loc.grid,
               meta |-> [crowd_energy |-> loc.en]]
    /\ UNCHANGED <<args, loc>>

NextSens == SensStart \/ SensCell \/ SensRowEnd \/ SensReturn

SpecSens == InitSens /\ [][NextSens]_vars

(***************************************************************************)
(* C9.  The sensitivity surface has len(student_ratio) rows and            *)
(* len(attendance) columns, and cell [i][j] equals the win probability of  *)
(* a direct call of predict_hfa with student_ratio value i, attendance     *)
(* value j and the game's other inputs.                                    *)
(***************************************************************************)
C9_SurfaceCellsAreDirectCalls ==
    (pc = "done" /\ ret.raised = "none") =>
        /\ Len(ret.win_probability) = Len(ret.student_ratio)
        /\ \A i \in 1..Len(ret.win_probability) :
              /\ Len(ret.win_probability[i]) = Len(ret.attendance)
              /\ \A j \in 1..Len(ret.attendance) :
                    ret.win_probability[i][j] =
                        predict_hfa(
                            [attendance |-> ret.attendance[j],
                             venue_capacity |-> args.game.venue_capacity,
                             student_ratio |-> ret.student_ratio[i],
                             rivalry_flag |-> args.game.rivalry_flag,
                             opponent_rank |-> RankOr25(args.game.opponent_rank),
                             home_team_rank |-> RankOr25(args.game.home_team_rank),
                             weather_wind_mph |-> args.game.baseline_weather_wind_mph,
                             kickoff_time_local |-> args.game.kickoff_time_local,
                             promotion_type |-> args.game.baseline_promotion_type,
                             crowd_energy |-> ret.meta.crowd_energy,
                             is_indoor |-> FALSE]).predicted_win_probability

\* a surface of three rows and three columns whose cells differ
C9_Witness ==
    /\ pc = "done"
    /\ ret.raised = "none"
    /\ Len(ret.win_probability) = 3
    /\ Len(ret.win_probability[3]) = 3
    /\ ret.win_probability[1][3] # ret.win_probability[3][1]

(***************************************************************************)
(* monte_carlo.py: run_monte_carlo, one trial per action                   *)
(***************************************************************************)
MaxTrials == 3
N_BINS == 20

\* dict.get(key, default); a dict is a function from its keys
Get(d, key, default) == IF key \in DOMAIN d THEN d[key] ELSE default

RECURSIVE SeqSum(_)
SeqSum(values) == IF values = << >> THEN 0 ELSE Head(values) + SeqSum(Tail(values))

SeqMin(values) == CHOOSE v \in {values[i] : i \in 1..Len(values)} :
                      \A i \in 1..Len(values) : v <= values[i]
SeqMax(values) == CHOOSE v \in {values[i] : i \in 1..Len(values)} :
                      \A i \in 1..Len(values) : v >= values[i]

RemoveAt(values, i) == [k \in 1..(Len(values) - 1) |->
                           IF k < i THEN values[k] ELSE values[k + 1]]

RECURSIVE sorted(_)
sorted(values) ==
    IF values = << >> THEN << >>
    ELSE LET i == CHOOSE i \in 1..Len(values) :
                      /\ values[i] = SeqMin(values)
                      /\ \A k \in 1..(i - 1) : values[k] # SeqMin(values)
         IN <<values[i]>> \o sorted(RemoveAt(values, i))

\* compute_stats for n >= 1; std, a float square root no property reads, is left out
compute_stats(values) ==
    LET sorted_vals == sorted(values)
        n == Len(values)
    IN [mean |-> SeqSum(values) \div n,
        min |-> sorted_vals[1],
        max |-> sorted_vals[n],
        p5 |-> sorted_vals[(n * 5) \div 100 + 1],
        p25 |-> sorted_vals[(n * 25) \div 100 + 1],
        p50 |-> sorted_vals[(n * 50) \div 100 + 1],
        p75 |-> sorted_vals[(n * 75) \div 100 + 1],
        p95 |-> sorted_vals[(n * 95) \div 100 + 1]]

\* make_histogram with exact arithmetic: the edges are kept multiplied by
\* n_bins, so bin_start <= v < bin_end is compared without rounding;
\* one is the metric's value 1 (bin_width when all values are equal)
make_histogram(values, one) ==
    LET min_val == SeqMin(values)
        max_val == SeqMax(values)
        width_n == IF max_val > min_val THEN max_val - min_val ELSE one * N_BINS
    IN [b \in 1..N_BINS |->
           LET start_n == min_val * N_BINS + (b - 1) * width_n
               end_n == start_n + width_n
               count == Cardinality({k \in 1..Len(values) :
                                        /\ start_n <= values[k] * N_BINS
                                        /\ values[k] * N_BINS < end_n})
           IN [bin_start_n |-> start_n,
               bin_end_n |-> end_n,
               count |-> count,
               frequency |-> (count * SCALE) \div Len(values)]]

\* "values": the accumulator list itself (lines 167, 172, 177, 182)
McValues_sorted(values) == sorted(values)
McValues(values) == values

McMetric(values, one) ==
    [stats |-> compute_stats(values),
     histogram |-> make_histogram(values, one),
     values |-> McValues(values)]

\* what random.uniform / random.randint return in one trial: relative
\* variations in 0.001 for the four uniform draws, and the staff jitter
TrialDraws(v) ==
    { [att |-> 0, sr |-> 0, en |-> 0, st |-> 0, staff |-> 0],
      [att |-> v, sr |-> v, en |-> v, st |-> v \div 2, staff |-> 1],
      [att |-> -v, sr |-> -v, en |-> -v, st |-> -(v \div 2), staff |-> -1],
      [att |-> v, sr |-> -v, en |-> 0, st |-> -(v \div 2), staff |-> -1] }

\* lines 30-47: the base scenario, each value from base_overrides or the game
McBase(a) ==
    LET game == a.game
        o == a.base_overrides
    IN [venue_capacity |-> Get(o, "venue_capacity", game.venue_capacity),
        is_indoor |-> a.venue.is_indoor,
        attendance |-> Get(o, "attendance", game.baseline_attendance),
        student_ratio |-> Get(o, "student_ratio", game.baseline_student_ratio),
        crowd_energy |-> Get(o, "crowd_energy", 78),
        stands_open_pct |-> Get(o, "stands_open_pct", 85),
        staff_per_stand |-> Get(o, "staff_per_stand", 6),
        kickoff_time_local |-> Get(o, "kickoff_time_local", game.kickoff_time_local),
        weather_wind_mph |-> Get(o, "weather_wind_mph", game.baseline_weather_wind_mph),
        weather_temp_f |-> Get(o, "weather_temp_f", game.baseline_weather_temp_f),
        promotion_type |-> Get(o, "promotion_type", game.baseline_promotion_type),
        express_lanes |-> Get(o, "express_lanes", FALSE),
        early_arrival_promo |-> Get(o, "early_arrival_promo", FALSE),
        seats_open_pct |-> Get(o, "seats_open_pct", 100),
        rivalry_flag |-> game.rivalry_flag,
        opponent_rank |-> RankOr25(game.opponent_rank),
        home_team_rank |-> RankOr25(game.home_team_rank)]

\* line 73: staff = max(4, min(12, staff))
McStaffClamp_none(staff) == staff
McStaffClamp(staff) == Max(4, Min(12, staff))

\* lines 60-73: the scenario of one trial, the five perturbed values clamped
McScenario(a, draw) ==
    CHOOSE s \in
      { [base EXCEPT
           !.attendance =
               Max(Max(0, base.venue_capacity \div 2),
                   Min((base.venue_capacity * 11) \div 10,
                       MulDiv(base.attendance, SCALE + draw.att, SCALE))),
           !.student_ratio = Max(100, Min(300, Mul(base.student_ratio, SCALE + draw.sr))),
           !.crowd_energy =
               Max(50 * SCALE, Min(100 * SCALE, base.crowd_energy * (SCALE + draw.en)))
                   \div SCALE,
           !.stands_open_pct =
               Max(70 * SCALE, Min(100 * SCALE, base.stands_open_pct * (SCALE + draw.st)))
                   \div SCALE,
           !.staff_per_stand = McStaffClamp(base.staff_per_stand + draw.staff)] :
        base \in {McBase(a)} } : TRUE

\* lines 75-124: the three models on the scenario of a trial and its four outcomes
McModels(venue, s_arg) ==
    CHOOSE t \in UNION {
      { IF Raised(hfa) THEN hfa
        ELSE IF Raised(concessions) THEN concessions
        ELSE [raised |-> "none",
              win_prob |-> hfa.predicted_win_probability,
              decibels |-> noise.projected_decibels,
              revenue |-> concessions.revenue_total_usd,
              utilization |-> concessions.ops.worst_utilization] :
        hfa \in {predict_hfa(
               [attendance |-> s.attendance,
                venue_capacity |->
                    Max(1, (s.venue_capacity
                            * s.seats_open_pct) \div 100),
                student_ratio |-> s.student_ratio,
                rivalry_flag |-> s.rivalry_flag,
                opponent_rank |-> s.opponent_rank,
                home_team_rank |-> s.home_team_rank,
                weather_wind_mph |-> s.weather_wind_mph,
                kickoff_time_local |-> s.kickoff_time_local,
                promotion_type |-> s.promotion_type,
                crowd_energy |-> s.crowd_energy,
                is_indoor |-> s.is_indoor])},
        noise \in {predict_loudness_db(
               [attendance |-> s.attendance,
                venue_capacity |-> s.venue_capacity,
                rivalry_flag |-> s.rivalry_flag,
                kickoff_time_local |-> s.kickoff_time_local,
                crowd_energy |-> s.crowd_energy,
                student_ratio |-> s.student_ratio,
                is_indoor |-> s.is_indoor,
                weather_temp_f |-> s.weather_temp_f])},
        concessions \in {simulate_concessions(
               [attendance |-> s.attendance,
                student_ratio |-> s.student_ratio,
                kickoff_time_local |-> s.kickoff_time_local,
                weather_temp_f |-> s.weather_temp_f,
                promotion_type |-> s.promotion_type,
                stands_open_pct |-> s.stands_open_pct,
                staff_per_stand |-> s.staff_per_stand,
                express_lanes |-> s.express_lanes,
                early_arrival_promo |-> s.early_arrival_promo,
                venue |-> venue,
                is_indoor |-> s.is_indoor])} } :
      s \in {s_arg} } : TRUE

\* one trial: the perturbed scenario and its outcomes
McTrial(a, draw) ==
    CHOOSE t \in { McModels(x.venue, McScenario(x, d)) : x \in {a}, d \in {draw} } : TRUE

McRequests ==
    [game : {g \in Games : g.opponent_rank = 3 /\ g.baseline_attendance = 2900},
     venue : {load_venue},
     base_overrides : { [key \in {} |-> 0],
                        [attendance |-> 2600, seats_open_pct |-> 90],
                        [crowd_energy |-> 98, staff_per_stand |-> 3,
                         express_lanes |-> TRUE] },
     n_simulations : 0..MaxTrials,
     variation_pct : {80}]

InitMC == pc = "call" /\ args \in McRequests /\ loc = NoLoc /\ ret = NoRet

MCStart ==
    /\ pc = "call"
    /\ pc' = "loop"
    /\ loc' = [win_probs |-> << >>, decibels_list |-> << >>, revenues |-> << >>,
               utilizations |-> << >>, draws |-> << >>]
    /\ UNCHANGED <<args, ret>>

MCTrial ==
    /\ pc = "loop"
    /\ Len(loc.draws) < args.n_simulations
    /\ \E draw \in TrialDraws(args.variation_pct) :
          \E t \in {McTrial(args, draw)} :
             IF Raised(t)
             THEN pc' = "done" /\ ret' = t /\ loc' = loc
             ELSE /\ loc' = [win_probs |-> Append(loc.win_probs, t.win_prob),
                             decibels_list |-> Append(loc.decibels_list, t.decibels),
                             revenues |-> Append(loc.revenues, t.revenue),
                             utilizations |-> Append(loc.utilizations, t.utilization),
                             draws |-> Append(loc.draws, draw)]
                  /\ UNCHANGED <<pc, ret>>
    /\ UNCHANGED args

MCReturn ==
    /\ pc = "loop"
    /\ Len(loc.draws) >= args.n_simulations
    /\ pc' = "done"
    /\ ret' = IF Len(loc.win_probs) = 0
              THEN Raise("ZeroDivisionError")   \* sum(values) / n in compute_stats
              ELSE [raised |-> "none",
                    n_simulations |-> args.n_simulations,
                    variation_pct |-> args.variation_pct,
                    win_probability |-> McMetric(loc.win_probs, SCALE),
                    decibels |-> McMetric(loc.decibels_list, SCALE),
                    revenue |-> McMetric(loc.revenues, 100),
                    utilization |-> McMetric(loc.utilizations, SCALE)]
    /\ UNCHANGED <<args, loc>>

NextMC == MCStart \/ MCTrial \/ MCReturn

SpecMC == InitMC /\ [][NextMC]_vars

McMetrics(r) == <<r.win_probability, r.decibels, r.revenue, r.utilization>>

RECURSIVE HistogramTotal(_, _)
HistogramTotal(histogram, b) ==
    IF b = 0 THEN 0 ELSE histogram[b].count + HistogramTotal(histogram, b - 1)

(***************************************************************************)
(* C4.  In a Monte Carlo result over K >= 1 trials, the 20 histogram bin   *)
(* counts of every metric sum to K.                                        *)
(***************************************************************************)
C4_HistogramCountsSumToK ==
    (pc = "done" /\ ret.raised = "none") =>
        \A m \in 1..4 :
            HistogramTotal(McMetrics(ret)[m].histogram, N_BINS) = args.n_simulations

MaxPoints == 3
None == "None"

\* what the seeded random.Random returns for one point (lines 23-31)
PointDraws ==
    { [attendance |-> 2580, student_ratio |-> 140, rivalry_flag |-> FALSE,
       opponent_rank |-> 25, home_team_rank |-> 6, weather_wind_mph |-> 22,
       kickoff_time_local |-> "12:00", promotion_type |-> "none", crowd_energy |-> 40],
      [attendance |-> 2830, student_ratio |-> 150, rivalry_flag |-> FALSE,
       opponent_rank |-> 25, home_team_rank |-> 6, weather_wind_mph |-> 20,
       kickoff_time_local |-> "15:30", promotion_type |-> "student_push", crowd_energy |-> 45],
      [attendance |-> 2830, student_ratio |-> 260, rivalry_flag |-> TRUE,
       opponent_rank |-> 25, home_team_rank |-> 1, weather_wind_mph |-> 2,
       kickoff_time_local |-> "19:30", promotion_type |-> "rivalry_hype", crowd_energy |-> 100] }

\* _make_point: the prediction for a drawn scenario at the venue's capacity
PointPrediction(draw) ==
    predict_hfa([attendance |-> draw.attendance,
                 venue_capacity |-> load_venue.capacity,
                 student_ratio |-> draw.student_ratio,
                 rivalry_flag |-> draw.rivalry_flag,
                 opponent_rank |-> draw.opponent_rank,
                 home_team_rank |-> draw.home_team_rank,
                 weather_wind_mph |-> draw.weather_wind_mph,
                 kickoff_time_local |-> draw.kickoff_time_local,
                 promotion_type |-> draw.promotion_type,
                 crowd_energy |-> draw.crowd_energy,
                 is_indoor |-> FALSE])

\* pt.p >= lo and (pt.p < hi if i < bins - 1 else pt.p <= hi), lo = i / bins
InBucket(pt, i, bins) ==
    /\ pt.p * bins >= i * SCALE
    /\ IF i < bins - 1 THEN pt.p * bins < (i + 1) * SCALE
                       ELSE pt.p * bins <= (i + 1) * SCALE

BucketPts(points, i, bins) == SelectSeq(points, LAMBDA pt : InBucket(pt, i, bins))

\* sum((pt.p - pt.y) ** 2 for pt in points) / max(1, len(points))
CalBrier_of_means(points) ==
    LET n == Max(1, Len(points))
        d == SeqSum([k \in 1..Len(points) |-> points[k].p - points[k].y * SCALE]) \div n
    IN d * d
CalBrier(points) ==
    SeqSum([k \in 1..Len(points) |->
               (points[k].p - points[k].y * SCALE) * (points[k].p - points[k].y * SCALE)])
        \div Max(1, Len(points))

\* bins = max(5, min(int(bins), 20)) (line 61)
CalBins_unclamped(bins_arg) == bins_arg
CalBins(bins_arg) == Max(5, Min(bins_arg, 20))

reliability_buckets(points, bins_arg) ==
    LET bins == CalBins(bins_arg)
    IN [brier |-> CalBrier(points),
        buckets |->
            [b \in 1..bins |->
                LET i == b - 1
                    lo == (i * SCALE) \div bins
                    hi == ((i + 1) * SCALE) \div bins
                IN CHOOSE r \in
                     { IF Len(bucket_pts) = 0
                       THEN [bin_lo |-> lo, bin_hi |-> hi, count |-> 0,
                             avg_pred |-> (lo + hi) \div 2, avg_obs |-> None]
                       ELSE [bin_lo |-> lo, bin_hi |-> hi, count |-> Len(bucket_pts),
                             avg_pred |-> SeqSum([k \in 1..Len(bucket_pts) |-> bucket_pts[k].p])
                                              \div Len(bucket_pts),
                             avg_obs |-> (SeqSum([k \in 1..Len(bucket_pts) |-> bucket_pts[k].y])
                                              * SCALE) \div Len(bucket_pts)] :
                       bucket_pts \in {BucketPts(points, i, bins)} } : TRUE],
        n |-> Len(points),
        bins |-> bins]

CalRequests == [n : 0..MaxPoints, bins : {3, 10, 25}]

InitCal == pc = "call" /\ args \in CalRequests /\ loc = NoLoc /\ ret = NoRet

CalStart ==
    /\ pc = "call"
    /\ pc' = "loop"
    /\ loc' = [points |-> << >>]
    /\ UNCHANGED <<args, ret>>

\* one _make_point call: a drawn scenario, its prediction p, and the outcome
\* y = 1 if rng.random() < p else 0 (either outcome while 0 < p < 1)
CalMakePoint ==
    /\ pc = "loop"
    /\ Len(loc.points) < args.n
    /\ \E draw \in PointDraws :
          \E res \in {PointPrediction(draw)} :
             IF Raised(res)
             THEN pc' = "done" /\ ret' = res /\ loc' = loc
             ELSE /\ \E y \in {0, 1} :
                        /\ (y = 1) => res.predicted_win_probability > 0
                        /\ (y = 0) => res.predicted_win_probability < SCALE
                        /\ loc' = [points |-> Append(loc.points,
                                       [p |-> res.predicted_win_probability, y |-> y])]
                  /\ UNCHANGED <<pc, ret>>
    /\ UNCHANGED args

CalReturn ==
    /\ pc = "loop"
    /\ Len(loc.points) >= args.n
    /\ pc' = "done"
    /\ ret' = [raised |-> "none", data |-> reliability_buckets(loc.points, args.bins)]
    /\ UNCHANGED <<args, loc>>

NextCal == CalStart \/ CalMakePoint \/ CalReturn

SpecCal == InitCal /\ [][NextCal]_vars

\* the Brier score recomputed from the buckets: the count-weighted squared
\* error between avg_pred and avg_obs, over the n points
RECURSIVE BucketSquaredError(_, _)
BucketSquaredError(buckets, b) ==
    IF b = 0 THEN 0
    ELSE BucketSquaredError(buckets, b - 1)
         + (IF buckets[b].count = 0 THEN 0
            ELSE buckets[b].count * (buckets[b].avg_pred - buckets[b].avg_obs)
                                  * (buckets[b].avg_pred - buckets[b].avg_obs))

BucketBrier(data) == BucketSquaredError(data.buckets, data.bins) \div Max(1, data.n)

\* "approximately": within 0.05
BrierTolerance == 50 * SCALE
\* the rounding of the stored averages, in 0.000001
RoundingSlack == 3 * SCALE

(***************************************************************************)
(* C10 as stated.  The Brier score recomputed from the returned buckets    *)
(* (count-weighted squared error between avg_pred and avg_obs)             *)
(* approximately reproduces the reported brier.                            *)
(***************************************************************************)
C10_BucketBrierReproducesBrier ==
    (pc = "done" /\ ret.raised = "none" /\ ret.data.n >= 1) =>
        Abs(BucketBrier(ret.data) - ret.data.brier) <= BrierTolerance

(***************************************************************************)
(* C10 amended.  The Brier score recomputed from the returned buckets      *)
(* never exceeds the reported brier: it is a lower bound of the mean       *)
(* squared error between p and outcome, not an approximation of it.        *)
(***************************************************************************)
C10_BucketBrierIsLowerBound ==
    (pc = "done" /\ ret.raised = "none" /\ ret.data.n >= 1) =>
        BucketBrier(ret.data) <= ret.data.brier + RoundingSlack

\* three points, a bucket holding points of both outcomes, and a
\* recomputed value far below the reported brier
C10_Witness ==
    /\ pc = "done"
    /\ ret.raised = "none"
    /\ ret.data.n = 3
    /\ \E b \in 1..ret.data.bins :
          /\ ret.data.buckets[b].count >= 2
          /\ ret.data.buckets[b].avg_obs \notin {0, SCALE}
    /\ BucketBrier(ret.data) + BrierTolerance < ret.data.brier

(***************************************************************************)
(* optimizer.py: _score_candidate and optimize_game                        *)
(* scores are held in 0.000001; an optional value is a sequence of length  *)
(* 0 (None) or 1                                                           *)
(***************************************************************************)
_score_candidate(delta_win, util, revenue_total, target_pp) ==
    LET delta_pp == delta_win * 100 * SCALE
        overload == Max(0, util - 900)
        score == delta_pp - 6 * overload * SCALE + revenue_total \div 100
    IN IF target_pp = << >> THEN score
       ELSE score + 2 * Min(delta_pp, target_pp[1] * SCALE)
                  + (IF delta_pp >= target_pp[1] * SCALE THEN 3 * SCALE * SCALE ELSE 0)

\* current = {**base, **req.current_overrides.model_dump(exclude_none=True)}
OptCurrent(game, req) ==
    LET o == req.current_overrides
    IN [attendance |-> Get(o, "attendance", game.baseline_attendance),
        student_ratio |-> Get(o, "student_ratio", game.baseline_student_ratio),
        opponent_rank |-> Get(o, "opponent_rank", RankOr25(game.opponent_rank)),
        home_team_rank |-> Get(o, "home_team_rank", RankOr25(game.home_team_rank)),
        kickoff_time_local |-> Get(o, "kickoff_time_local", game.kickoff_time_local),
        weather_wind_mph |-> Get(o, "weather_wind_mph", game.baseline_weather_wind_mph),
        weather_temp_f |-> Get(o, "weather_temp_f", game.baseline_weather_temp_f),
        promotion_type |-> Get(o, "promotion_type", game.baseline_promotion_type),
        crowd_energy |-> Get(o, "crowd_energy", load_venue.crowd.default_crowd_energy),
        stands_open_pct |-> Get(o, "stands_open_pct",
                                load_venue.concessions.default_stands_open_pct),
        staff_per_stand |-> Get(o, "staff_per_stand",
                                load_venue.concessions.default_staff_per_stand),
        express_lanes |-> Get(o, "express_lanes", FALSE),
        early_arrival_promo |-> Get(o, "early_arrival_promo", FALSE)]

\* base_hfa: the prediction at the game's baseline (lines 54-68)
OptBaseHfa(game) ==
    predict_hfa([attendance |-> game.baseline_attendance,
                 venue_capacity |-> game.venue_capacity,
                 student_ratio |-> game.baseline_student_ratio,
                 rivalry_flag |-> game.rivalry_flag,
                 opponent_rank |-> RankOr25(game.opponent_rank),
                 home_team_rank |-> RankOr25(game.home_team_rank),
                 weather_wind_mph |-> game.baseline_weather_wind_mph,
                 kickoff_time_local |-> game.kickoff_time_local,
                 promotion_type |-> game.baseline_promotion_type,
                 crowd_energy |-> load_venue.crowd.default_crowd_energy,
                 is_indoor |-> FALSE])

\* the six axes of lines 75-88
OptStandsFloor(req) == Max(req.min_stands_open_pct, 50)

OptAxes(current, req) ==
    [att_vals |-> PyRange(current.attendance,
                          current.attendance + req.max_attendance_increase + 1, 500),
     sr_vals |-> RatioSteps(current.student_ratio,
                            Min(SCALE, current.student_ratio + req.max_student_ratio_increase),
                            5),
     en_vals |-> PyRange(current.crowd_energy,
                         Min(100, current.crowd_energy + req.max_crowd_energy_increase) + 1, 5),
     stands_vals |-> PyRange(OptStandsFloor(req), 101, 5),
     staff_vals |-> PyRange(Min(current.staff_per_stand, req.max_staff_per_stand),
                            req.max_staff_per_stand + 1, 1),
     express_vals |-> <<FALSE, TRUE>>]

\* if att > 0 and (sr > 0.30): continue
OptSkipped(att, sr) == att > 0 /\ sr > 300

\* the body of the innermost loop (lines 102-154): one evaluated candidate
OptCandidate(game, current, base_p, target_pp, pt) ==
    CHOOSE c \in
      { IF Raised(hfa) THEN hfa
        ELSE IF Raised(concessions) THEN concessions
        ELSE [raised |-> "none",
              overrides |-> pt,
              delta_win_probability |-> hfa.predicted_win_probability - base_p,
              ops_worst_utilization |-> concessions.ops.worst_utilization,
              revenue_total_usd |-> concessions.revenue_total_usd,
              score |-> _score_candidate(hfa.predicted_win_probability - base_p,
                                         concessions.ops.worst_utilization,
                                         concessions.revenue_total_usd,
                                         target_pp)] :
        hfa \in {predict_hfa(
                   [attendance |-> pt.attendance,
                    venue_capacity |-> game.venue_capacity,
                    student_ratio |-> pt.student_ratio,
                    rivalry_flag |-> game.rivalry_flag,
                    opponent_rank |-> current.opponent_rank,
                    home_team_rank |-> current.home_team_rank,
                    weather_wind_mph |-> current.weather_wind_mph,
                    kickoff_time_local |-> current.kickoff_time_local,
                    promotion_type |-> current.promotion_type,
                    crowd_energy |-> pt.crowd_energy,
                    is_indoor |-> FALSE])},
        concessions \in {simulate_concessions(
                   [attendance |-> pt.attendance,
                    student_ratio |-> pt.student_ratio,
                    kickoff_time_local |-> current.kickoff_time_local,
                    weather_temp_f |-> current.weather_temp_f,
                    promotion_type |-> current.promotion_type,
                    stands_open_pct |-> pt.stands_open_pct,
                    staff_per_stand |-> pt.staff_per_stand,
                    express_lanes |-> pt.express_lanes,
                    early_arrival_promo |-> current.early_arrival_promo,
                    venue |-> load_venue,
                    is_indoor |-> FALSE])} } : TRUE

\* the point of the three inner loops (stands, staff, express) at position k
OptPoint(axes, att, sr, en, k) ==
    [attendance |-> att,
     student_ratio |-> sr,
     crowd_energy |-> en,
     stands_open_pct |->
         axes.stands_vals[(k \div (Len(axes.staff_vals) * 2)) + 1],
     staff_per_stand |->
         axes.staff_vals[((k \div 2) % Len(axes.staff_vals)) + 1],
     express_lanes |-> axes.express_vals[(k % 2) + 1]]

\* candidates.sort(key = score, reverse = True): a comes before b
Better_ascending(a, b) == a.score < b.score
Better(a, b) == a.score > b.score

\* in the stably sorted list, element j comes before element i
OptPrecedes(cands, j, i) ==
    \/ Better(cands[j], cands[i])
    \/ (~Better(cands[i], cands[j]) /\ j < i)

\* the first k elements of the stably sorted list
TopCandidates(cands, k) ==
    [r \in 1..Min(k, Len(cands)) |->
        cands[CHOOSE i \in 1..Len(cands) :
                  Cardinality({j \in 1..Len(cands) : OptPrecedes(cands, j, i)}) = r - 1]]

OptGames == {g \in Games : g.opponent_rank = 3 /\ g.baseline_attendance = 2900}

OptRequestShapes ==
    { [current_overrides |-> [key \in {} |-> 0],
       max_attendance_increase |-> 500, max_student_ratio_increase |-> 10,
       max_crowd_energy_increase |-> 5, max_staff_per_stand |-> 7,
       min_stands_open_pct |-> 90],
      [current_overrides |-> [staff_per_stand |-> 20],
       max_attendance_increase |-> 0, max_student_ratio_increase |-> 5,
       max_crowd_energy_increase |-> 0, max_staff_per_stand |-> 20,
       min_stands_open_pct |-> 12],
      [current_overrides |-> [attendance |-> 0, student_ratio |-> 295],
       max_attendance_increase |-> 500, max_student_ratio_increase |-> 10,
       max_crowd_energy_increase |-> 0, max_staff_per_stand |-> 6,
       min_stands_open_pct |-> 95],
      [current_overrides |-> [student_ratio |-> 310],
       max_attendance_increase |-> 0, max_student_ratio_increase |-> 5,
       max_crowd_energy_increase |-> 0, max_staff_per_stand |-> 6,
       min_stands_open_pct |-> 100],
      [current_overrides |-> [staff_per_stand |-> 9, crowd_energy |-> 98],
       max_attendance_increase |-> 1000, max_student_ratio_increase |-> 0,
       max_crowd_energy_increase |-> 5, max_staff_per_stand |-> 7,
       min_stands_open_pct |-> 43],
      [current_overrides |-> [staff_per_stand |-> 3],
       max_attendance_increase |-> 0, max_student_ratio_increase |-> 0,
       max_crowd_energy_increase |-> 0, max_staff_per_stand |-> 3,
       min_stands_open_pct |-> 23],
      [current_overrides |-> [attendance |-> 0],
       max_attendance_increase |-> 5500, max_student_ratio_increase |-> 0,
       max_crowd_energy_increase |-> 0, max_staff_per_stand |-> 6,
       min_stands_open_pct |-> 100] }

OptRequests ==
    { [game |-> g,
       req |-> [current_overrides |-> r.current_overrides,
                max_attendance_increase |-> r.max_attendance_increase,
                max_student_ratio_increase |-> r.max_student_ratio_increase,
                max_crowd_energy_increase |-> r.max_crowd_energy_increase,
                max_staff_per_stand |-> r.max_staff_per_stand,
                min_stands_open_pct |-> r.min_stands_open_pct,
                target_delta_win_pp |-> t]] :
      g \in OptGames, r \in OptRequestShapes, t \in {<< >>, <<500>>} }

InitOpt == pc = "call" /\ args \in OptRequests /\ loc = NoLoc /\ ret = NoRet

\* lines 32-90; t counts the (att, sr, en) combinations done and k the
\* iterations of the three inner loops done for the current combination
OptStart ==
    /\ pc = "call"
    /\ \E base_hfa \in {OptBaseHfa(args.game)}, current \in {OptCurrent(args.game, args.req)} :
          IF Raised(base_hfa)
          THEN pc' = "done" /\ ret' = base_hfa /\ loc' = loc
          ELSE /\ pc' = "loop"
               /\ loc' = [current |-> current,
                          base_p |-> base_hfa.predicted_win_probability,
                          axes |-> OptAxes(current, args.req),
                          t |-> 0,
                          k |-> 0,
                          candidates |-> << >>]
               /\ ret' = ret
    /\ UNCHANGED args

OptTriples == Len(loc.axes.att_vals) * Len(loc.axes.sr_vals) * Len(loc.axes.en_vals)
OptInnerLen == Len(loc.axes.stands_vals) * Len(loc.axes.staff_vals) * 2
OptAtt == loc.axes.att_vals[(loc.t \div (Len(loc.axes.sr_vals) * Len(loc.axes.en_vals))) + 1]
OptSr == loc.axes.sr_vals[((loc.t \div Len(loc.axes.en_vals)) % Len(loc.axes.sr_vals)) + 1]
OptEn == loc.axes.en_vals[(loc.t % Len(loc.axes.en_vals)) + 1]

\* lines 96-97: continue
OptSkip ==
    /\ pc = "loop"
    /\ loc.t < OptTriples
    /\ OptSkipped(OptAtt, OptSr)
    /\ loc' = [loc EXCEPT !.t = @ + 1]
    /\ UNCHANGED <<pc, args, ret>>

\* lines 99-154: one iteration of the innermost loop
OptEvaluate ==
    /\ pc = "loop"
    /\ loc.t < OptTriples
    /\ ~OptSkipped(OptAtt, OptSr)
    /\ \E c \in {OptCandidate(args.game, loc.current, loc.base_p,
                              args.req.target_delta_win_pp,
                              OptPoint(loc.axes, OptAtt, OptSr, OptEn, loc.k))} :
          IF Raised(c)
          THEN pc' = "done" /\ ret' = c /\ loc' = loc
          ELSE /\ loc' = [loc EXCEPT !.candidates = Append(@, c),
                                     !.k = IF loc.k + 1 = OptInnerLen THEN 0 ELSE @ + 1,
                                     !.t = IF loc.k + 1 = OptInnerLen THEN @ + 1 ELSE @]
               /\ UNCHANGED <<pc, ret>>
    /\ UNCHANGED args

\* lines 156-159
OptReturn ==
    /\ pc = "loop"
    /\ loc.t >= OptTriples
    /\ pc' = "done"
    /\ \E top \in {TopCandidates(loc.candidates, 6)} :
          ret' = IF Len(top) = 0
                 THEN Raise("IndexError")   \* candidates[0] of an empty list
                 ELSE [raised |-> "none",
                       recommended |-> top[1],
                       alternatives |-> Tail(top)]
    /\ UNCHANGED <<args, loc>>

NextOpt == OptStart \/ OptSkip \/ OptEvaluate \/ OptReturn

SpecOpt == InitOpt /\ [][NextOpt]_vars

\* the grid as section 4.6 of the specification declares it: the student
\* ratio stops at the absolute ceiling of 0.30, the stands start at the
\* configured minimum and the staff at the current value
DeclaredGrid ==
    LET current == loc.current
        req == args.req
        att_vals == loc.axes.att_vals
        sr_vals == RatioSteps(current.student_ratio,
                              Min(300, current.student_ratio + req.max_student_ratio_increase),
                              5)
        en_vals == loc.axes.en_vals
        stands_vals == PyRange(req.min_stands_open_pct, 101, 5)
        staff_vals == PyRange(current.staff_per_stand, req.max_staff_per_stand + 1, 1)
    IN { [attendance |-> att_vals[a],
          student_ratio |-> sr_vals[b],
          crowd_energy |-> en_vals[c],
          stands_open_pct |-> stands_vals[d],
          staff_per_stand |-> staff_vals[e],
          express_lanes |-> x] :
         a \in 1..Len(att_vals), b \in 1..Len(sr_vals), c \in 1..Len(en_vals),
         d \in 1..Len(stands_vals), e \in 1..Len(staff_vals), x \in BOOLEAN }

\* the score of a point of the grid; a point whose evaluation raises has none
GridScores ==
    { c.score : c \in { d \in { OptCandidate(args.game, loc.current, loc.base_p,
                                               args.req.target_delta_win_pp, pt) :
                                  pt \in DeclaredGrid } : ~Raised(d) } }

HfaAnyInputs ==
    [attendance : {-5, 51390},
     venue_capacity : {102780},
     student_ratio : {-200, 200, 1500},
     rivalry_flag : BOOLEAN,
     opponent_rank : {25},
     home_team_rank : {5},
     weather_wind_mph : {8},
     kickoff_time_local : {"15:30", "late"},
     promotion_type : {"none", "flash_sale"},
     crowd_energy : {-10, 75, 150},
     is_indoor : BOOLEAN]

InitHfaAny == pc = "call" /\ args \in HfaAnyInputs /\ loc = NoLoc /\ ret = NoRet

SpecHfaAny == InitHfaAny /\ [][NextHfa]_vars

\* C12: predict_hfa raises no exception, whatever the HfaInputs value
C12_PredictHfaNeverRaises ==
    pc = "done" => ret.raised = "none"

\* the nearest valid value of each numeric input: attendance floored at 0,
\* the ratio clamped to [0,1], the percentage clamped to [0,100]
NearestValidHfaInputs(inputs) ==
    [inputs EXCEPT !.attendance = Max(0, @),
                   !.student_ratio = _clamp(@, 0, SCALE),
                   !.crowd_energy = _clamp(@, 0, 100)]

\* C13: an out-of-range numeric input is replaced by the nearest valid
\* value before it is used: the result is the result on the clamped input
C13_OutOfRangeInputsAreClamped ==
    (pc = "done" /\ args.promotion_type \in KnownPromotions) =>
        ret = predict_hfa(NearestValidHfaInputs(args))

(***************************************************************************)
(* The queue and the abandonment loss of simulate_concessions              *)
(***************************************************************************)
\* the Erlang-C wait probability T / (sum over k = 0..s-1 of a^k/k! + T)
\* with T = (a^s/s!) * s/(s-a)
ErlangC(a, s) ==
    LET T == MulDiv(ErlangTerm(a, s) * s, SCALE, Max(1, s * SCALE - a))
    IN Ratio(T, ErlangSum(a, s - 1) + T)

\* C18: for a stable window (0 < a < s) the wait probability is the
\* Erlang-C formula, the normalising sum running over k = 0..s-1
C18_WaitProbabilityIsErlangC ==
    (/\ pc = "done"
     /\ args.arrivals_per_min > 0
     /\ args.arrivals_per_min < Max(1, args.stands_open) * args.mu_per_stand)
        => /\ ret.raised = "none"
           /\ ret.p_wait = _clamp(ErlangC(Div(args.arrivals_per_min, args.mu_per_stand),
                                          Max(1, args.stands_open)), 0, SCALE)

\* C19: every window's utilization and ops.worst_utilization lie in
\* [0, 1.5], whatever the attendance, the stands open and the staff
C19_UtilizationAtMostCap ==
    (pc = "done" /\ ret.raised = "none") =>
        /\ \A i \in 1..3 :
               /\ ret.ops.wait_time_windows[i].utilization >= 0
               /\ ret.ops.wait_time_windows[i].utilization <= QUEUE_RHO_SENTINEL
        /\ ret.ops.worst_utilization >= 0
        /\ ret.ops.worst_utilization <= QUEUE_RHO_SENTINEL

\* the loss the specification gives for a utilization, in 1/10000 of the
\* window's share: 14.25 percent in (0.90, 1.05], 25 percent above, else 0
LossShare(util) ==
    IF util <= 900 THEN 0 ELSE IF util <= 1050 THEN 1425 ELSE 2500

\* C20: a window loses revenue exactly when its band's midpoint exceeds 12
\* minutes, that is when its utilization is above 0.90; the loss is 14.25
\* or 25 percent of the window's share of the gross revenue, and
\* revenue_total_usd is the gross revenue less the three losses
C20_AbandonmentLoss ==
    (pc = "done" /\ ret.raised = "none") =>
        /\ \A i \in 1..3 :
              LET w == ret.ops.wait_time_windows[i]
                  share == MulDiv(ret.revenue_gross_usd,
                                  ConcWindows(args.early_arrival_promo)[i].pct, SCALE)
              IN /\ (w.wait_minutes_band[1] + w.wait_minutes_band[2] > 24)
                        <=> (w.utilization > 900)
                 /\ w.abandonment_loss_usd = MulDiv(share, LossShare(w.utilization), 10000)
        /\ ret.revenue_total_usd =
              ret.revenue_gross_usd
              - (ret.ops.wait_time_windows[1].abandonment_loss_usd
                 + ret.ops.wait_time_windows[2].abandonment_loss_usd
                 + ret.ops.wait_time_windows[3].abandonment_loss_usd)

\* one game with a window in each regime: no loss, 14.25 percent, 25 percent
C20_Witness ==
    /\ pc = "done"
    /\ ret.raised = "none"
    /\ ret.revenue_gross_usd > 0
    /\ \E i, j, k \in 1..3 :
          /\ ret.ops.wait_time_windows[i].utilization <= 900
          /\ ret.ops.wait_time_windows[i].abandonment_loss_usd = 0
          /\ ret.ops.wait_time_windows[j].utilization > 900
          /\ ret.ops.wait_time_windows[j].utilization <= 1050
          /\ ret.ops.wait_time_windows[j].abandonment_loss_usd > 0
          /\ ret.ops.wait_time_windows[k].utilization > 1050
          /\ ret.ops.wait_time_windows[k].abandonment_loss_usd
                > ret.ops.wait_time_windows[j].abandonment_loss_usd
    /\ ret.revenue_total_usd < ret.revenue_gross_usd

(***************************************************************************)
(* app/main.py simulate_game: POST /games/{game_id}/simulate.              *)
(* A Game object has exactly the fields that schemas.Game declares; the    *)
(* keys venue_id and is_indoor of games.json are dropped by                *)
(* Game.model_validate (storage.py line 26).  The overrides dictionary is  *)
(* ScenarioOverrides.model_dump(exclude_none=True): only declared fields.  *)
(***************************************************************************)

\* storage.py lines 62-66: the first game with that id, or None (<< >>)
get_game(games, game_id) ==
    LET hits == SelectSeq(games, LAMBDA g : g.game_id = game_id)
    IN IF hits = << >> THEN << >> ELSE <<Head(hits)>>

\* venues.json: a venue that leaves concessions and crowd to the defaults
load_venues == [schott |-> [capacity |-> 1900, is_indoor |-> TRUE]]

\* storage.py lines 48-52: the copy of a venues.json entry with the defaults
VenueWithDefaults(v, default_venue) ==
    [key \in DOMAIN v \cup {"capacity", "concessions", "crowd"} |->
        IF key \in DOMAIN v THEN v[key]
        ELSE IF key = "capacity" THEN 102780
        ELSE default_venue[key]]

\* storage.py lines 42-53 on the cached objects
get_venue_in(venue, venues, venue_id) ==
    IF venue_id = None THEN venue
    ELSE IF venue_id \in DOMAIN venues THEN VenueWithDefaults(venues[venue_id], venue)
    ELSE venue

\* storage.py lines 42-53 on the files' content
get_venue(venue_id) == get_venue_in(load_venue, load_venues, venue_id)

\* main.py lines 79-96: the baseline scenario of the game
SimBase(game, venue) ==
    [attendance |-> game.baseline_attendance,
     student_ratio |-> game.baseline_student_ratio,
     opponent_rank |-> RankOr25(game.opponent_rank),
     home_team_rank |-> RankOr25(game.home_team_rank),
     kickoff_time_local |-> game.kickoff_time_local,
     weather_wind_mph |-> game.baseline_weather_wind_mph,
     weather_temp_f |-> game.baseline_weather_temp_f,
     promotion_type |-> game.baseline_promotion_type,
     crowd_energy |-> venue.crowd.default_crowd_energy,
     stands_open_pct |-> venue.concessions.default_stands_open_pct,
     staff_per_stand |-> venue.concessions.default_staff_per_stand,
     seats_open_pct |-> 100,
     express_lanes |-> FALSE,
     early_arrival_promo |-> FALSE,
     venue_capacity |-> venue.capacity]

\* main.py line 97: cf = {**base, **overrides}
SimMerge(base, overrides) ==
    [key \in DOMAIN base |-> IF key \in DOMAIN overrides THEN overrides[key] ELSE base[key]]

\* main.py lines 100-145: the three engines on one scenario
run_one(game, venue, s_arg) ==
    CHOOSE r \in
      { IF Raised(hfa) THEN hfa
        ELSE IF Raised(concessions) THEN concessions
        ELSE [raised |-> "none", hfa |-> hfa, noise |-> noise, concessions |-> concessions] :
        hfa \in {predict_hfa(
               [attendance |-> s_arg.attendance,
                venue_capacity |-> Max(1, (s_arg.venue_capacity * s_arg.seats_open_pct) \div 100),
                student_ratio |-> s_arg.student_ratio,
                rivalry_flag |-> game.rivalry_flag,
                opponent_rank |-> s_arg.opponent_rank,
                home_team_rank |-> s_arg.home_team_rank,
                weather_wind_mph |-> s_arg.weather_wind_mph,
                kickoff_time_local |-> s_arg.kickoff_time_local,
                promotion_type |-> s_arg.promotion_type,
                crowd_energy |-> s_arg.crowd_energy,
                is_indoor |-> venue.is_indoor])},
        noise \in {predict_loudness_db(
               [attendance |-> s_arg.attendance,
                venue_capacity |-> s_arg.venue_capacity,
                rivalry_flag |-> game.rivalry_flag,
                kickoff_time_local |-> s_arg.kickoff_time_local,
                crowd_energy |-> s_arg.crowd_energy,
                student_ratio |-> s_arg.student_ratio,
                is_indoor |-> venue.is_indoor,
                weather_temp_f |-> s_arg.weather_temp_f])},
        concessions \in {simulate_concessions(
               [attendance |-> s_arg.attendance,
                student_ratio |-> s_arg.student_ratio,
                kickoff_time_local |-> s_arg.kickoff_time_local,
                weather_temp_f |-> s_arg.weather_temp_f,
                promotion_type |-> s_arg.promotion_type,
                stands_open_pct |-> s_arg.stands_open_pct,
                staff_per_stand |-> s_arg.staff_per_stand,
                express_lanes |-> s_arg.express_lanes,
                early_arrival_promo |-> s_arg.early_arrival_promo,
                venue |-> venue,
                is_indoor |-> venue.is_indoor])} } : TRUE

\* main.py lines 147-157: the response built from the two runs
SimResponse(game, baseline, counterfactual) ==
    IF Raised(baseline) THEN baseline
    ELSE IF Raised(counterfactual) THEN counterfactual
    ELSE [raised |-> "none",
          game_id |-> game.game_id,
          baseline |-> baseline,
          counterfactual |-> counterfactual,
          delta_win_probability |->
              counterfactual.hfa.predicted_win_probability
              - baseline.hfa.predicted_win_probability,
          engine_assumptions |-> "snapshot"]

\* main.py lines 74-149: both runs on the resolved venue
SimRuns(game, venue, overrides) ==
    CHOOSE resp \in
      { SimResponse(game, run_one(game, venue, base),
                    run_one(game, venue, SimMerge(base, overrides))) :
        base \in {SimBase(game, venue)} } : TRUE

\* main.py lines 66-157: the whole handler
simulate_game(games, game_id, overrides) ==
    LET found == get_game(games, game_id)
    IN IF found = << >>
       THEN [raised |-> "HTTPException", status_code |-> 404]
       ELSE \* line 73: overrides.pop("venue_id", None) or game.venue_id
            IF ~("venue_id" \in DOMAIN overrides) /\ ~("venue_id" \in DOMAIN found[1])
            THEN Raise("AttributeError")
            ELSE SimRuns(found[1],
                         get_venue(Get(overrides, "venue_id", Get(found[1], "venue_id", None))),
                         overrides)

\* requests: ScenarioOverrides dumps with None fields excluded
SimOverrides ==
    { [key \in {} |-> 0],
      [crowd_energy |-> 80],
      [attendance |-> 2500],
      [attendance |-> 2500, crowd_energy |-> 95],
      [student_ratio |-> 260, promotion_type |-> "student_push"],
      [stands_open_pct |-> 60, staff_per_stand |-> 3],
      [kickoff_time_local |-> "19:30", weather_temp_f |-> 30],
      [express_lanes |-> TRUE, early_arrival_promo |-> TRUE] }

SimRequests ==
    [games : {<<g>> : g \in Games},
     game_id : {"g", "unknown"},
     overrides : SimOverrides]

InitSim == pc = "call" /\ args \in SimRequests /\ loc = NoLoc /\ ret = NoRet

CallSimulateGame ==
    /\ pc = "call"
    /\ pc' = "done"
    /\ ret' = simulate_game(args.games, args.game_id, args.overrides)
    /\ UNCHANGED <<args, loc>>

NextSim == CallSimulateGame

SpecSim == InitSim /\ [][NextSim]_vars

\* C17: for an existing game the simulate endpoint answers with a baseline,
\* a counterfactual and the engine assumptions, the baseline being the run
\* on the game and venue defaults whatever the overrides, the counterfactual
\* the run on the defaults merged with the overrides, the delta their
\* difference of win probability (0 for empty overrides); an unknown game
\* id answers 404.
C17_SimulateBaselineAndCounterfactual ==
    (pc = "done") =>
        LET found == get_game(args.games, args.game_id)
        IN IF found = << >>
           THEN ret = [raised |-> "HTTPException", status_code |-> 404]
           ELSE /\ ret.raised = "none"
                /\ ret.baseline = run_one(found[1], load_venue, SimBase(found[1], load_venue))
                /\ ret.counterfactual =
                       run_one(found[1], load_venue,
                               SimMerge(SimBase(found[1], load_venue), args.overrides))
                /\ ret.delta_win_probability =
                       ret.counterfactual.hfa.predicted_win_probability
                       - ret.baseline.hfa.predicted_win_probability
                /\ (DOMAIN args.overrides = {} => ret.delta_win_probability = 0)
                /\ ret.engine_assumptions = "snapshot"

(***************************************************************************)
(* The number of evaluations of optimize_game.  OptimizeRequest declares   *)
(* an upper limit for every bound but max_attendance_increase, whose only  *)
(* configured value is its default.                                        *)
(***************************************************************************)
DEFAULT_MAX_ATTENDANCE_INCREASE == 5000

\* the size of the grid the configured bounds span: the request's axes with
\* the attendance increase held to its configured default
OptEvaluationCap ==
    LET axes == OptAxes(loc.current,
                        [args.req EXCEPT !.max_attendance_increase =
                             Min(@, DEFAULT_MAX_ATTENDANCE_INCREASE)])
    IN Len(axes.att_vals) * Len(axes.sr_vals) * Len(axes.en_vals)
       * Len(axes.stands_vals) * Len(axes.staff_vals) * Len(axes.express_vals)

\* C14: optimize_game never evaluates more candidates (one predict_hfa and
\* one simulate_concessions call each) than the cap derived from the
\* configured bounds, however large the bounds of the request.
C14_EvaluationCountCapped ==
    (pc \in {"loop", "done"} /\ loc # NoLoc) =>
        Len(loc.candidates) <= OptEvaluationCap

(***************************************************************************)
(* A process that serves calls from two threads.  The state the calls      *)
(* share is the lru_cache of the three configuration loaders (storage.py)  *)
(* and the hidden generator of the random module; everything else is       *)
(* local to a call.  pc, args and ret are indexed by thread here, and loc  *)
(* holds the shared state.                                                 *)
(***************************************************************************)
Threads == {1, 2}

\* the generator of the random module: a state, a step and the variate
\* read from a state
RngPeriod == 3
RngNext(g) == (g + 1) % RngPeriod
RngUniform(g) == (g * SCALE) \div RngPeriod

RECURSIVE NthOf(_, _)
NthOf(S, n) ==
    LET x == CHOOSE y \in S : TRUE
    IN IF n = 0 THEN x ELSE NthOf(S \ {x}, n - 1)

\* rng.choice and the like: the element the state selects
RngChoice(S, g) == NthOf(S, g % Cardinality(S))

\* the content of the three files
ConfigFiles == [venue |-> load_venue, venues |-> load_venues, menu |-> load_concessions_menu]

\* an lru_cache entry is << >> before the first call and <<value>> after it
CacheEmpty == [venue |-> << >>, venues |-> << >>, menu |-> << >>]

\* @lru_cache(maxsize=1) on a loader without arguments
CacheLoad(cache, keys) ==
    [key \in DOMAIN cache |->
        IF key \in keys /\ cache[key] = << >> THEN <<ConfigFiles[key]>> ELSE cache[key]]

\* storage.py line 48, v = dict(venues[venue_id]): the defaults go to a copy
\* and the cached entry stays as loaded
GetVenueStore_in_place(venues, venue_id, v) ==
    IF venue_id \in DOMAIN venues THEN [venues EXCEPT ![venue_id] = v] ELSE venues
GetVenueStore(venues, venue_id, v) == venues

\* the first raised element of a sequence of results, or << >>
FirstRaised(results) ==
    LET idx == {i \in 1..Len(results) : Raised(results[i])}
    IN IF idx = {} THEN << >>
       ELSE <<results[CHOOSE i \in idx : \A j \in idx : i <= j]>>

\* sensitivity.py hfa_sensitivity_surface as a function of its request
hfa_sensitivity_surface(a) ==
    LET att_vals == PyRange(a.attendance_min, a.attendance_max + 1, a.attendance_step)
        sr_vals == RatioSteps(a.student_ratio_min, a.student_ratio_max, a.student_ratio_step)
        en == IF a.crowd_energy # 0 THEN a.crowd_energy ELSE 78
        n == Len(att_vals)
    IN CHOOSE r \in
         { IF FirstRaised(cells) # << >> THEN FirstRaised(cells)[1]
           ELSE [raised |-> "none",
                 attendance |-> att_vals,
                 student_ratio |-> sr_vals,
                 win_probability |->
                     [i \in 1..Len(sr_vals) |->
                         [j \in 1..n |-> cells[(i - 1) * n + j].predicted_win_probability]],
                 meta |-> [crowd_energy |-> en]] :
           cells \in {[c \in 1..(Len(sr_vals) * n) |->
                         predict_hfa(SensHfaInputs(a.game, sr_vals[((c - 1) \div n) + 1],
                                                   att_vals[((c - 1) % n) + 1], en))]} } : TRUE

\* optimizer.py optimize_game as a function of its request
optimize_game(game, req) ==
    LET current == OptCurrent(game, req)
        axes == OptAxes(current, req)
        n_sr == Len(axes.sr_vals)
        n_en == Len(axes.en_vals)
        inner == Len(axes.stands_vals) * Len(axes.staff_vals) * 2
        total == Len(axes.att_vals) * n_sr * n_en * inner
        Att(c) == axes.att_vals[((c - 1) \div (inner * n_sr * n_en)) + 1]
        Sr(c) == axes.sr_vals[(((c - 1) \div (inner * n_en)) % n_sr) + 1]
        En(c) == axes.en_vals[(((c - 1) \div inner) % n_en) + 1]
        steps == SelectSeq([c \in 1..total |-> c], LAMBDA c : ~OptSkipped(Att(c), Sr(c)))
    IN CHOOSE r \in
         { IF Raised(base_hfa) THEN base_hfa
           ELSE IF FirstRaised(cands) # << >> THEN FirstRaised(cands)[1]
           ELSE IF Len(cands) = 0 THEN Raise("IndexError")
           ELSE [raised |-> "none",
                 recommended |-> TopCandidates(cands, 6)[1],
                 alternatives |-> Tail(TopCandidates(cands, 6))] :
           base_hfa \in {OptBaseHfa(game)},
           cands \in {[s \in 1..Len(steps) |->
                         OptCandidate(game, current,
                                      OptBaseHfa(game).predicted_win_probability,
                                      req.target_delta_win_pp,
                                      OptPoint(axes, Att(steps[s]), Sr(steps[s]), En(steps[s]),
                                               (steps[s] - 1) % inner))]} } : TRUE

\* calibration.py line 53, rng = random.Random(seed): the generator of a
\* report is its own, started from the seed
CalGenerator_global(seed, global) == global
CalGenerator(seed, global) == seed % RngPeriod

\* calibration.py lines 18-49 and 54: n points drawn from generator g
RECURSIVE CalPoints(_, _)
CalPoints(g, n) ==
    IF n = 0 THEN << >>
    ELSE CHOOSE pts \in
           { <<IF Raised(res) THEN res
               ELSE [raised |-> "none",
                     p |-> res.predicted_win_probability,
                     y |-> IF RngUniform(RngNext(g)) < res.predicted_win_probability
                           THEN 1 ELSE 0]>>
             \o CalPoints(RngNext(RngNext(g)), n - 1) :
             res \in {PointPrediction(RngChoice(PointDraws, g))} } : TRUE

\* calibration.py lines 52-88: the report of n seeded points
calibration_report(seed, n, bins, global) ==
    CHOOSE r \in
      { IF FirstRaised(pts) # << >> THEN FirstRaised(pts)[1]
        ELSE [raised |-> "none",
              data |-> reliability_buckets([k \in 1..Len(pts) |->
                                               [p |-> pts[k].p, y |-> pts[k].y]], bins)] :
        pts \in {CalPoints(CalGenerator(seed, global), n)} } : TRUE

\* monte_carlo.py lines 60-124: the trials, each drawing from generator g
RECURSIVE McTrials(_, _, _)
McTrials(a, g, n) ==
    IF n = 0 THEN << >>
    ELSE <<McTrial(a, RngChoice(TrialDraws(a.variation_pct), g))>>
         \o McTrials(a, RngNext(g), n - 1)

\* monte_carlo.py run_monte_carlo as a function of its arguments and of the
\* state of the random module's generator
run_monte_carlo(a, g) ==
    CHOOSE r \in
      { IF FirstRaised(trials) # << >> THEN FirstRaised(trials)[1]
        ELSE IF Len(trials) = 0 THEN Raise("ZeroDivisionError")
        ELSE [raised |-> "none",
              n_simulations |-> a.n_simulations,
              variation_pct |-> a.variation_pct,
              win_probability |-> McMetric([k \in 1..Len(trials) |-> trials[k].win_prob], SCALE),
              decibels |-> McMetric([k \in 1..Len(trials) |-> trials[k].decibels], SCALE),
              revenue |-> McMetric([k \in 1..Len(trials) |-> trials[k].revenue], 100),
              utilization |-> McMetric([k \in 1..Len(trials) |-> trials[k].utilization], SCALE)] :
        trials \in {McTrials(a, g, a.n_simulations)} } : TRUE

\* the generator after the n trials of a run
RECURSIVE RngAfter(_, _)
RngAfter(g, n) == IF n = 0 THEN g ELSE RngAfter(RngNext(g), n - 1)

SessionGame == CHOOSE g \in Games : g.opponent_rank = 3 /\ g.baseline_attendance = 2900 /\ g.rivalry_flag

\* the calls a thread can make
SessionCalls ==
    { [op |-> "predict_hfa", inputs |-> SensHfaInputs(SessionGame, 200, 2900, 78)],
      [op |-> "predict_loudness_db",
       inputs |-> [attendance |-> 2900, venue_capacity |-> 3000, rivalry_flag |-> TRUE,
                   kickoff_time_local |-> "19:30", crowd_energy |-> 80,
                   student_ratio |-> 180, is_indoor |-> FALSE, weather_temp_f |-> 30]],
      [op |-> "simulate_concessions",
       inputs |-> [attendance |-> 2000, student_ratio |-> 200,
                   kickoff_time_local |-> "19:30", weather_temp_f |-> 30,
                   promotion_type |-> "student_push", stands_open_pct |-> 60,
                   staff_per_stand |-> 6, express_lanes |-> TRUE,
                   early_arrival_promo |-> FALSE, is_indoor |-> FALSE]],
      [op |-> "get_venue", venue_id |-> None],
      [op |-> "get_venue", venue_id |-> "schott"],
      [op |-> "hfa_sensitivity_surface",
       inputs |-> [game |-> SessionGame, attendance_min |-> 2550, attendance_max |-> 3000,
                   attendance_step |-> 500, student_ratio_min |-> 140,
                   student_ratio_max |-> 260, student_ratio_step |-> 60,
                   crowd_energy |-> 0]],
      [op |-> "optimize_game", game |-> SessionGame,
       req |-> [current_overrides |-> [key \in {} |-> 0],
                max_attendance_increase |-> 0, max_student_ratio_increase |-> 5,
                max_crowd_energy_increase |-> 0, max_staff_per_stand |-> 6,
                min_stands_open_pct |-> 100, target_delta_win_pp |-> << >>]],
      [op |-> "calibration", seed |-> 42, n |-> 2, bins |-> 10],
      [op |-> "run_monte_carlo",
       inputs |-> [game |-> SessionGame, venue |-> load_venue,
                   base_overrides |-> [crowd_energy |-> 98, staff_per_stand |-> 3,
                                       express_lanes |-> TRUE],
                   n_simulations |-> 2, variation_pct |-> 80]] }

\* the loaders a call goes through
CallLoads(call) ==
    CASE call.op = "simulate_concessions" -> {"venue", "menu"}
      [] call.op = "get_venue" -> IF call.venue_id = None THEN {"venue"} ELSE {"venue", "venues"}
      [] call.op = "optimize_game" -> {"venue", "menu"}
      [] call.op = "calibration" -> {"venue"}
      [] call.op = "run_monte_carlo" -> {"menu"}
      [] OTHER -> {}

\* what a call returns, given the cached objects and the generator's state
CallResult(call, venue, venues, g) ==
    CASE call.op = "predict_hfa" -> predict_hfa(call.inputs)
      [] call.op = "predict_loudness_db" -> predict_loudness_db(call.inputs)
      [] call.op = "simulate_concessions" ->
             simulate_concessions([key \in DOMAIN call.inputs \cup {"venue"} |->
                                      IF key = "venue" THEN venue ELSE call.inputs[key]])
      [] call.op = "get_venue" ->
             [raised |-> "none", venue |-> get_venue_in(venue, venues, call.venue_id)]
      [] call.op = "hfa_sensitivity_surface" -> hfa_sensitivity_surface(call.inputs)
      [] call.op = "optimize_game" -> optimize_game(call.game, call.req)
      [] call.op = "calibration" -> calibration_report(call.seed, call.n, call.bins, g)
      [] call.op = "run_monte_carlo" -> run_monte_carlo(call.inputs, g)

NoCall == [op |-> "none"]

InitSession ==
    /\ pc = [t \in Threads |-> "idle"]
    /\ args = [t \in Threads |-> NoCall]
    /\ ret = [t \in Threads |-> NoRet]
    /\ loc = [cache |-> CacheEmpty, rng |-> 0, drawn |-> [t \in Threads |-> 0]]

\* a thread enters a call; the loaders it goes through fill the cache
Invoke(t) ==
    /\ pc[t] = "idle"
    /\ \E call \in SessionCalls :
          /\ args' = [args EXCEPT ![t] = call]
          /\ loc' = [loc EXCEPT !.cache = CacheLoad(@, CallLoads(call))]
    /\ pc' = [pc EXCEPT ![t] = "running"]
    /\ UNCHANGED ret

\* the call computes on the cached objects and returns; a Monte Carlo run
\* advances the generator of the random module
Complete(t) ==
    /\ pc[t] = "running"
    /\ \E venue \in {IF loc.cache.venue = << >> THEN load_venue ELSE loc.cache.venue[1]},
          venues \in {IF loc.cache.venues = << >> THEN load_venues ELSE loc.cache.venues[1]} :
          /\ \E r \in {CallResult(args[t], venue, venues, loc.rng)} :
                ret' = [ret EXCEPT ![t] = r]
          /\ loc' = [cache |->
                        IF args[t].op = "get_venue" /\ args[t].venue_id # None
                        THEN [loc.cache EXCEPT !.venues =
                                <<GetVenueStore(venues, args[t].venue_id,
                                                get_venue_in(venue, venues, args[t].venue_id))>>]
                        ELSE loc.cache,
                     rng |-> IF args[t].op = "run_monte_carlo"
                             THEN RngAfter(loc.rng, args[t].inputs.n_simulations)
                             ELSE loc.rng,
                     drawn |-> [loc.drawn EXCEPT ![t] =
                                  IF args[t].op = "run_monte_carlo" THEN loc.rng ELSE 0]]
    /\ pc' = [pc EXCEPT ![t] = "done"]
    /\ UNCHANGED args

\* the caller takes the result and the thread is free again
Release(t) ==
    /\ pc[t] = "done"
    /\ pc' = [pc EXCEPT ![t] = "idle"]
    /\ args' = [args EXCEPT ![t] = NoCall]
    /\ ret' = [ret EXCEPT ![t] = NoRet]
    /\ loc' = [loc EXCEPT !.drawn[t] = 0]

NextSession == \E t \in Threads : Invoke(t) \/ Complete(t) \/ Release(t)

SpecSession == InitSession /\ [][NextSession]_vars

\* C11: two finished calls of the same operation with the same input, the
\* Monte Carlo engine excepted, hold the same result, whatever calls ran in
\* between.
C11_DeterministicOperations ==
    \A t1 \in Threads, t2 \in Threads :
        (/\ pc[t1] = "done" /\ pc[t2] = "done"
         /\ args[t1] = args[t2]
         /\ args[t1].op # "run_monte_carlo")
        => ret[t1] = ret[t2]

\* two finished seeded calibration reports, a Monte Carlo run having
\* advanced the shared generator before the second
C11_Witness ==
    /\ pc[1] = "done" /\ pc[2] = "done"
    /\ args[1] = args[2]
    /\ args[1].op = "calibration"
    /\ ret[1].raised = "none"
    /\ ret[1].data.n = 2
    /\ loc.rng # 0

\* C15: two finished run_monte_carlo calls with the same arguments hold the
\* same output, sample statistics and histograms included.
C15_MonteCarloRepeatable ==
    \A t1 \in Threads, t2 \in Threads :
        (/\ pc[t1] = "done" /\ pc[t2] = "done"
         /\ args[t1] = args[t2]
         /\ args[t1].op = "run_monte_carlo")
        => ret[t1] = ret[t2]

\* C16: a loaded configuration object stays as its file gave it, and every
\* finished call holds the result it has when run alone on the files'
\* content (for a Monte Carlo run: with the variates it drew).
C16_CachedConfigUnchanged ==
    /\ \A key \in DOMAIN loc.cache :
           loc.cache[key] \in {<< >>, <<ConfigFiles[key]>>}
    /\ \A t \in Threads :
           pc[t] = "done" =>
               ret[t] = CallResult(args[t], load_venue, load_venues, loc.drawn[t])

\* a get_venue call on a venues.json entry has filled the defaults and
\* returned while the other thread is inside simulate_concessions on the
\* cached default venue
C16_Witness ==
    /\ pc[1] = "done"
    /\ args[1] = [op |-> "get_venue", venue_id |-> "schott"]
    /\ ret[1].venue.concessions = load_venue.concessions
    /\ loc.cache.venues # << >>
    /\ pc[2] = "running"
    /\ args[2].op = "simulate_concessions"

\* the summed demand shares of the three windows, in thousandths
DemandShares(early_arrival_promo) ==
    ConcWindows(early_arrival_promo)[1].pct + ConcWindows(early_arrival_promo)[2].pct
    + ConcWindows(early_arrival_promo)[3].pct

\* C21: the revenue after the abandonment adjustment is never negative, and
\* the total abandonment loss is at most the summed demand shares times 25
\* percent of the gross revenue, which is at most 10.5 percent of it.
C21_RevenueAfterAbandonmentNonNegative ==
    (pc = "done" /\ ret.raised = "none") =>
        /\ ret.revenue_gross_usd >= 0
        /\ ret.revenue_total_usd >= 0
        /\ ret.revenue_abandonment_loss_usd
              <= MulDiv(ret.revenue_gross_usd, DemandShares(args.early_arrival_promo), 4 * SCALE)
        /\ ret.revenue_abandonment_loss_usd <= MulDiv(ret.revenue_gross_usd, 105, SCALE)

\* every window saturated with the early-arrival promotion on: the loss is
\* above 10 percent of a positive gross revenue
C21_Witness ==
    /\ pc = "done"
    /\ ret.raised = "none"
    /\ args.early_arrival_promo
    /\ ret.revenue_gross_usd > 0
    /\ \A i \in 1..3 : ret.ops.wait_time_windows[i].utilization > 1050
    /\ ret.revenue_abandonment_loss_usd > MulDiv(ret.revenue_gross_usd, 100, SCALE)
    /\ ret.revenue_total_usd < ret.revenue_gross_usd

\* the utilization of a window served with r staff per stand: line 585 with
\* capacity_per_min of line 564 at staff_per_stand = r
UtilizationWith(arrivals, stands_open, r, service_rate, boost) ==
    Div(arrivals, Max(stands_open * Mul(r * service_rate, SCALE + boost), 1))

\* the smallest r in 1..20 that keeps the window at or below 0.90, else 20
SmallestStaff(arrivals, stands_open, service_rate, boost) ==
    LET enough == {r \in 1..20 :
                      UtilizationWith(arrivals, stands_open, r, service_rate, boost) <= 900}
    IN IF enough = {} THEN 20 ELSE CHOOSE r \in enough : \A q \in enough : r <= q

\* C22: each entry of the staffing plan is the smallest staff per stand in
\* 1..20 that keeps its window's utilization at or below 0.90 with the same
\* open stands and express-lane setting (20 when none does), and the
\* top-level recommendation is the halftime entry.
C22_StaffingPlanIsMinimal ==
    (pc = "done" /\ ret.raised = "none") =>
        LET conc == args.venue.concessions
            boost == IF args.express_lanes THEN conc.express_lane_service_boost_pct * 10 ELSE 0
        IN /\ \A i \in 1..3 :
                 /\ ret.ops.staffing_plan[i].window = ret.ops.wait_time_windows[i].window
                 /\ ret.ops.staffing_plan[i].recommended_staff_per_stand =
                        SmallestStaff(ret.ops.wait_time_windows[i].arrivals_per_min,
                                      ret.ops.stands_open,
                                      conc.service_rate_customers_per_staff_per_min, boost)
           /\ ret.ops.staffing_plan[2].window = "halftime"
           /\ ret.ops.recommended_staff_per_stand =
                  ret.ops.staffing_plan[2].recommended_staff_per_stand

\* a plan in which one window needs more staff than the scenario has and
\* fewer than 20, and another cannot be served even with 20
C22_Witness ==
    /\ pc = "done"
    /\ ret.raised = "none"
    /\ \E j, k \in 1..3 :
          /\ ret.ops.staffing_plan[j].recommended_staff_per_stand > ret.ops.staff_per_stand
          /\ ret.ops.staffing_plan[j].recommended_staff_per_stand < 20
          /\ ret.ops.staffing_plan[k].recommended_staff_per_stand = 20
          /\ UtilizationWith(ret.ops.wait_time_windows[k].arrivals_per_min, ret.ops.stands_open,
                             20, args.venue.concessions.service_rate_customers_per_staff_per_min,
                             IF args.express_lanes
                             THEN args.venue.concessions.express_lane_service_boost_pct * 10
                             ELSE 0) > 900

\* C23: every candidate optimize_game evaluates has its stands_open_pct on
\* the axis that starts at the request's min_stands_open_pct and goes up in
\* steps of 5 to at most 100.
C23_StandsAxisStartsAtConfiguredMinimum ==
    (pc \in {"loop", "done"} /\ loc # NoLoc) =>
        \A i \in 1..Len(loc.candidates) :
            LET stands == loc.candidates[i].overrides.stands_open_pct
            IN /\ stands >= args.req.min_stands_open_pct
               /\ stands <= 100
               /\ (stands - args.req.min_stands_open_pct) % 5 = 0

\* C24: every candidate optimize_game evaluates has its student_ratio on
\* the axis that starts at the current student_ratio and goes up in steps
\* of 0.005 to at most min(current + max_student_ratio_increase, 0.30), at
\* every attendance, 0 included.
C24_StudentRatioAxisCappedAt30 ==
    (pc \in {"loop", "done"} /\ loc # NoLoc) =>
        \A i \in 1..Len(loc.candidates) :
            LET sr == loc.candidates[i].overrides.student_ratio
            IN /\ sr >= loc.current.student_ratio
               /\ (sr - loc.current.student_ratio) % 5 = 0
               /\ sr <= Min(loc.current.student_ratio + args.req.max_student_ratio_increase, 300)

\* C29: optimize_game returns, for every valid request, a recommended
\* candidate and at most five alternatives in descending order of score,
\* having evaluated at least one candidate.
C29_OptimizeAlwaysRecommends ==
    (pc = "done") =>
        /\ ret.raised = "none"
        /\ Len(loc.candidates) >= 1
        /\ Len(ret.alternatives) <= 5
        /\ \A i \in 1..Len(ret.alternatives) :
               /\ ret.recommended.score >= ret.alternatives[i].score
               /\ \A j \in 1..(i - 1) : ret.alternatives[j].score >= ret.alternatives[i].score

\* the five inputs a trial perturbs
McPerturbed == {"attendance", "student_ratio", "crowd_energy", "stands_open_pct", "staff_per_stand"}

\* C25: the scenario of every Monte Carlo trial equals the base scenario in
\* everything but attendance, student_ratio, crowd_energy, stands_open_pct
\* and staff_per_stand (weather, kickoff time and promotion among the fixed
\* ones), with student_ratio in [0.10, 0.30], crowd_energy in [50, 100] and
\* staff_per_stand in [4, 12], the clamped value of base - 1, base or base + 1.
C25_TrialScenarioPerturbsFiveInputs ==
    (pc \in {"loop", "done"} /\ loc # NoLoc) =>
        \A i \in 1..Len(loc.draws) :
            LET base == McBase(args)
                s == McScenario(args, loc.draws[i])
            IN /\ DOMAIN s = DOMAIN base
               /\ \A key \in DOMAIN base \ McPerturbed : s[key] = base[key]
               /\ s.student_ratio >= 100 /\ s.student_ratio <= 300
               /\ s.crowd_energy >= 50 /\ s.crowd_energy <= 100
               /\ s.staff_per_stand >= 4 /\ s.staff_per_stand <= 12
               /\ \E d \in -1..1 :
                      s.staff_per_stand = Max(4, Min(12, base.staff_per_stand + d))

\* a finished run of two trials from a base with 3 staff and crowd energy 98:
\* the staff clamp and the energy clamp have both acted, and the two trials
\* differ in attendance
C25_Witness ==
    /\ pc = "done"
    /\ ret.raised = "none"
    /\ Len(loc.draws) >= 2
    /\ McBase(args).staff_per_stand = 3
    /\ McBase(args).crowd_energy = 98
    /\ \E i, j \in 1..Len(loc.draws) :
          /\ loc.draws[i].staff = -1
          /\ McScenario(args, loc.draws[i]).staff_per_stand = 4
          /\ loc.draws[j].en > 0
          /\ McScenario(args, loc.draws[j]).crowd_energy = 100
          /\ McScenario(args, loc.draws[i]).attendance # McScenario(args, loc.draws[j]).attendance
          /\ McScenario(args, loc.draws[i]).weather_temp_f
                = McScenario(args, loc.draws[j]).weather_temp_f

\* the points of a report that lie in bucket b of bins equal-width buckets,
\* [lo, hi) and for the last bucket [lo, hi]
PointsIn(points, b, bins) ==
    {k \in 1..Len(points) :
        /\ points[k].p * bins >= (b - 1) * SCALE
        /\ \/ points[k].p * bins < b * SCALE
           \/ (b = bins /\ points[k].p * bins <= b * SCALE)}

\* C26: reliability_buckets uses the bin count clamped to [5, 20] and as
\* many equal-width buckets; every point lies in exactly one bucket, each
\* bucket counts its points, the counts sum to n, and a bucket without
\* points reports count 0 and avg_obs None.
C26_BucketsPartitionThePoints ==
    (pc = "done" /\ ret.raised = "none") =>
        LET data == ret.data
        IN /\ data.bins = Max(5, Min(args.bins, 20))
           /\ Len(data.buckets) = data.bins
           /\ data.n = Len(loc.points)
           /\ \A b \in 1..data.bins :
                 /\ data.buckets[b].bin_lo = ((b - 1) * SCALE) \div data.bins
                 /\ data.buckets[b].bin_hi = (b * SCALE) \div data.bins
                 /\ data.buckets[b].count = Cardinality(PointsIn(loc.points, b, data.bins))
                 /\ (data.buckets[b].count = 0) => (data.buckets[b].avg_obs = None)
                 /\ (data.buckets[b].count > 0) => (data.buckets[b].avg_obs \in 0..SCALE)
           /\ \A k \in 1..Len(loc.points) :
                 Cardinality({b \in 1..data.bins : k \in PointsIn(loc.points, b, data.bins)}) = 1
           /\ SeqSum([b \in 1..data.bins |-> data.buckets[b].count]) = data.n

\* a report of three points for a requested bin count of 25, clamped to 20:
\* two points share a bucket, a third lies in another, and the rest are empty
C26_Witness ==
    /\ pc = "done"
    /\ ret.raised = "none"
    /\ args.bins = 25
    /\ ret.data.bins = 20
    /\ ret.data.n = 3
    /\ \E b, c \in 1..ret.data.bins :
          /\ ret.data.buckets[b].count = 2
          /\ ret.data.buckets[c].count = 1
    /\ \E b \in 1..ret.data.bins :
          ret.data.buckets[b].count = 0 /\ ret.data.buckets[b].avg_obs = None

\* C28: for a window with 0 < offered load < open stands, whatever the
\* number s >= 1 of open stands, the queue computation returns metrics
\* and does not raise.
C28_QueueReturnsForStableLoad ==
    (/\ pc = "done"
     /\ args.stands_open >= 1
     /\ args.arrivals_per_min > 0
     /\ args.arrivals_per_min < args.stands_open * args.mu_per_stand)
        => ret.raised = "none"

(***************************************************************************)
(* scenario_store.py and the /scenarios endpoints of app/main.py           *)
(***************************************************************************)
\* the identifiers uuid.uuid4() hands out, and the length of a history
MaxIds == 3
MaxOps == 4
ScenarioIds == 1..MaxIds

\* _STORE: dict[str, SavedScenario] = {}
EmptyStore == [i \in {} |-> None]

\* uuid.uuid4(): an identifier that was not handed out before
uuid4(issued) == ScenarioIds \ issued

\* create_scenario: the scenario built and the store after _STORE[sid] = sc
create_scenario(store, sid, now, req) ==
    LET sc == [scenario_id |-> sid,
               game_id |-> req.game_id,
               overrides |-> req.overrides,
               note |-> req.note,
               created_at |-> now]
    IN [sc |-> sc,
        store |-> [i \in (DOMAIN store) \cup {sid} |-> IF i = sid THEN sc ELSE store[i]]]

\* _STORE.get(scenario_id): << >> for None, <<sc>> for a scenario
get_scenario(store, scenario_id) ==
    IF scenario_id \in DOMAIN store THEN <<store[scenario_id]>> ELSE << >>

\* _STORE.pop(scenario_id, None) is not None
delete_scenario_keep(store, scenario_id) ==
    [ok |-> scenario_id \in DOMAIN store, store |-> store]
delete_scenario(store, scenario_id) ==
    [ok |-> scenario_id \in DOMAIN store,
     store |-> [i \in (DOMAIN store) \ {scenario_id} |-> store[i]]]

NotFound == [raised |-> "HTTPException", status_code |-> 404]

\* ScenarioCreateRequest bodies
ScenarioCreateRequests ==
    {[game_id |-> "g1", overrides |-> [attendance |-> 100], note |-> None],
     [game_id |-> "g2", overrides |-> [crowd_energy |-> 90], note |-> "n"]}

\* loc.store is _STORE; loc.log is the history of requests and responses;
\* loc.issued the identifiers uuid4 has returned; datetime.utcnow() reads
\* the number of requests served before
InitStore ==
    /\ pc = "idle"
    /\ args = NoCall
    /\ ret = NoRet
    /\ loc = [store |-> EmptyStore, log |-> << >>, issued |-> {}]

Logged(op, a, r) == Append(loc.log, [op |-> op, args |-> a, ret |-> r])

scenarios_create ==
    /\ Len(loc.log) < MaxOps
    /\ \E req \in ScenarioCreateRequests, sid \in uuid4(loc.issued) :
          \E c \in {create_scenario(loc.store, sid, Len(loc.log), req)} :
             /\ pc' = "scenarios_create"
             /\ args' = req
             /\ ret' = [raised |-> "none", data |-> c.sc]
             /\ loc' = [loc EXCEPT !.store = c.store,
                                   !.issued = @ \cup {sid},
                                   !.log = Logged("create", req, [raised |-> "none", data |-> c.sc])]

scenarios_get ==
    /\ Len(loc.log) < MaxOps
    /\ \E scenario_id \in ScenarioIds :
          \E sc \in {get_scenario(loc.store, scenario_id)} :
             \E r \in {IF sc = << >> THEN NotFound ELSE [raised |-> "none", data |-> sc[1]]} :
                /\ pc' = "scenarios_get"
                /\ args' = [scenario_id |-> scenario_id]
                /\ ret' = r
                /\ loc' = [loc EXCEPT !.log = Logged("get", [scenario_id |-> scenario_id], r)]

scenarios_delete ==
    /\ Len(loc.log) < MaxOps
    /\ \E scenario_id \in ScenarioIds :
          \E d \in {delete_scenario(loc.store, scenario_id)} :
             \E r \in {IF d.ok THEN [raised |-> "none", data |-> [deleted |-> TRUE]] ELSE NotFound} :
                /\ pc' = "scenarios_delete"
                /\ args' = [scenario_id |-> scenario_id]
                /\ ret' = r
                /\ loc' = [loc EXCEPT !.store = d.store,
                                      !.log = Logged("delete", [scenario_id |-> scenario_id], r)]

NextStore == scenarios_create \/ scenarios_get \/ scenarios_delete

SpecStore == InitStore /\ [][NextStore]_vars

\* the creates among the first k entries of a history whose scenario was not
\* deleted by a later one of these entries
LiveCreates(log, k) ==
    {i \in 1..k :
        /\ log[i].op = "create"
        /\ \A j \in (i + 1)..k :
              ~(/\ log[j].op = "delete"
                /\ log[j].args.scenario_id = log[i].ret.data.scenario_id)}

LiveAs(log, k, scenario_id) ==
    {i \in LiveCreates(log, k) : log[i].ret.data.scenario_id = scenario_id}

\* C30: in every history of create, get and delete requests, a get of id
\* returns the scenario that a create returned under that id when that
\* create has no later delete of id before the get, and 404 otherwise; a
\* delete succeeds in exactly that case and fails (404) otherwise; and the
\* store holds, unchanged, exactly the scenarios created and not deleted
\* since.
C30_StoreHoldsCreatedNotDeleted ==
    LET log == loc.log
    IN /\ \A k \in 1..Len(log) :
             /\ log[k].op = "get" =>
                   LET live == LiveAs(log, k - 1, log[k].args.scenario_id)
                   IN IF live = {}
                      THEN log[k].ret = NotFound
                      ELSE \A i \in live : log[k].ret = [raised |-> "none", data |-> log[i].ret.data]
             /\ log[k].op = "delete" =>
                   LET live == LiveAs(log, k - 1, log[k].args.scenario_id)
                   IN IF live = {}
                      THEN log[k].ret = NotFound
                      ELSE log[k].ret = [raised |-> "none", data |-> [deleted |-> TRUE]]
             /\ log[k].op = "create" =>
                   /\ log[k].ret.raised = "none"
                   /\ LiveAs(log, k - 1, log[k].ret.data.scenario_id) = {}
                   /\ log[k].ret.data.game_id = log[k].args.game_id
                   /\ log[k].ret.data.overrides = log[k].args.overrides
                   /\ log[k].ret.data.note = log[k].args.note
       /\ DOMAIN loc.store = {log[i].ret.data.scenario_id : i \in LiveCreates(log, Len(log))}
       /\ \A i \in LiveCreates(log, Len(log)) :
             get_scenario(loc.store, log[i].ret.data.scenario_id) = <<log[i].ret.data>>

\* two scenarios are created, one is deleted, a second delete of it fails,
\* and the other one is still stored as it was created
C30_Witness ==
    /\ Len(loc.log) = 4
    /\ loc.log[1].op = "create"
    /\ loc.log[2].op = "create"
    /\ loc.log[3].op = "delete"
    /\ loc.log[3].args.scenario_id = loc.log[1].ret.data.scenario_id
    /\ loc.log[3].ret.raised = "none"
    /\ loc.log[4].op = "delete"
    /\ loc.log[4].args = loc.log[3].args
    /\ loc.log[4].ret = NotFound
    /\ DOMAIN loc.store = {loc.log[2].ret.data.scenario_id}
    /\ loc.store[loc.log[2].ret.data.scenario_id] = loc.log[2].ret.data

(***************************************************************************)
(* espn_api.py and weather_api.py: _cached_get and its TTL cache           *)
(***************************************************************************)
ESPN_CACHE_TTL_SECONDS == 900
WEATHER_CACHE_TTL_SECONDS == 1800
CACHE_TTL_SECONDS == [espn |-> ESPN_CACHE_TTL_SECONDS, weather |-> WEATHER_CACHE_TTL_SECONDS]
Apis == {"espn", "weather"}

\* the clock moves in steps of TimeStep seconds up to MaxTime; a history
\* has at most MaxCalls calls
TimeStep == 450
MaxTime == 1800
MaxCalls == 3
Urls == {"u1", "u2"}

\* what urlopen(...), resp.read().decode() and json.loads(...) can do: a
\* parsed body, or one of the exceptions of urllib, http.client, the codec
\* and json
CaughtErrors == {"URLError", "JSONDecodeError", "TimeoutError"}
FetchOutcomes ==
    {[raised |-> "none", data |-> d] : d \in {1, 2}}
        \cup {[raised |-> e] : e \in CaughtErrors \cup {"RemoteDisconnected", "UnicodeDecodeError"}}

\* the cached entry for url is fresh: now - ts < CACHE_TTL_SECONDS
CacheFresh(cache, url, now, ttl) ==
    url \in DOMAIN cache /\ now - cache[url].ts < ttl

\* _cached_get(url) at time now, the request (when one is made) ending as
\* outcome: the value returned or the exception raised (<<d>> for data d,
\* << >> for None), the cache afterwards, and whether a request was made
_cached_get(cache, url, now, ttl, outcome) ==
    IF CacheFresh(cache, url, now, ttl)
    THEN [ret |-> [raised |-> "none", data |-> <<cache[url].data>>],
          cache |-> cache, requested |-> FALSE]
    ELSE IF outcome.raised = "none"
    THEN [ret |-> [raised |-> "none", data |-> <<outcome.data>>],
          cache |-> [u \in (DOMAIN cache) \cup {url} |->
                        IF u = url THEN [ts |-> now, data |-> outcome.data] ELSE cache[u]],
          requested |-> TRUE]
    ELSE IF outcome.raised \in CaughtErrors
    THEN [ret |-> [raised |-> "none", data |-> << >>], cache |-> cache, requested |-> TRUE]
    ELSE [ret |-> [raised |-> outcome.raised], cache |-> cache, requested |-> TRUE]

EmptyCache == [u \in {} |-> None]

\* loc.cache is the _cache of each module, loc.now is time.time(), loc.log
\* the calls made: url, time, cache before, outcome of the request, result
InitCache ==
    /\ pc = "idle"
    /\ args = NoCall
    /\ ret = NoRet
    /\ loc = [cache |-> [api \in Apis |-> EmptyCache], now |-> 0, log |-> << >>]

CallCachedGet ==
    /\ Len(loc.log) < MaxCalls
    /\ \E api \in Apis, url \in Urls, outcome \in FetchOutcomes :
          \E r \in {_cached_get(loc.cache[api], url, loc.now, CACHE_TTL_SECONDS[api], outcome)} :
             /\ r.requested \/ outcome = [raised |-> "URLError"]
             /\ pc' = "_cached_get"
             /\ args' = [api |-> api, url |-> url]
             /\ ret' = r.ret
             /\ loc' = [loc EXCEPT !.cache[api] = r.cache,
                                   !.log = Append(@, [api |-> api, url |-> url, now |-> loc.now,
                                                      before |-> loc.cache[api],
                                                      after |-> r.cache,
                                                      requested |-> r.requested,
                                                      outcome |-> IF r.requested THEN outcome
                                                                  ELSE [raised |-> "no request"],
                                                      ret |-> r.ret])]

TimePasses ==
    /\ loc.now + TimeStep <= MaxTime
    /\ loc' = [loc EXCEPT !.now = @ + TimeStep]
    /\ UNCHANGED <<pc, args, ret>>

NextCache == CallCachedGet \/ TimePasses

SpecCache == InitCache /\ [][NextCache]_vars

\* the successful fetches of a call's url among the calls before call k
FetchesBefore(log, k) ==
    {j \in 1..(k - 1) :
        /\ log[j].api = log[k].api
        /\ log[j].url = log[k].url
        /\ log[j].requested
        /\ log[j].outcome.raised = "none"}

\* the caching itself: a call at a time < t + TTL after the latest successful
\* fetch of its url at t returns that response without a request, every
\* other call makes a request, and a request ending in URLError,
\* JSONDecodeError or TimeoutError returns None and leaves the cache as it was
CacheServesWithinTtl ==
    \A k \in 1..Len(loc.log) :
        LET c == loc.log[k]
            fresh == {j \in FetchesBefore(loc.log, k) :
                         c.now < loc.log[j].now + CACHE_TTL_SECONDS[c.api]}
        IN /\ fresh # {} =>
                 /\ ~c.requested
                 /\ \E j \in fresh :
                       /\ \A i \in fresh : i <= j
                       /\ c.ret = [raised |-> "none", data |-> <<loc.log[j].outcome.data>>]
           /\ fresh = {} => c.requested
           /\ (c.requested /\ c.outcome.raised \in CaughtErrors) =>
                 /\ c.ret = [raised |-> "none", data |-> << >>]
                 /\ c.after = c.before

\* C27: in every history of calls, a call at a time < t + TTL after a
\* successful fetch of its url at t returns that response without a
\* request; any other call makes a request; and a call whose request fails
\* returns None and leaves the cache as it was.
C27_CachedForTtlAndNoneOnFailure ==
    \A k \in 1..Len(loc.log) :
        LET c == loc.log[k]
            fresh == {j \in FetchesBefore(loc.log, k) :
                         c.now < loc.log[j].now + CACHE_TTL_SECONDS[c.api]}
        IN /\ fresh # {} =>
                 /\ ~c.requested
                 /\ \E j \in fresh :
                       /\ \A i \in fresh : i <= j
                       /\ c.ret = [raised |-> "none", data |-> <<loc.log[j].outcome.data>>]
           /\ fresh = {} => c.requested
           /\ (c.requested /\ c.outcome.raised # "none") =>
                 /\ c.ret = [raised |-> "none", data |-> << >>]
                 /\ c.after = c.before

====
